---- MODULE Spec2Model ----
(***************************************************************************)
(* Model of the content-extraction pipeline of paperscraper-pro            *)
(* (services/scraperService, concatenated into src/App.tsx lines 543-780), *)
(* of the AI cleanup (services/geminiService, lines 502-542) and of the    *)
(* article handlers of the App component (lines 289-309).                  *)
(*                                                                         *)
(* A JavaScript string is a sequence of one-character strings (its UTF-16  *)
(* code units); a DOM node is a record; a CSS selector is the list of its  *)
(* comma-separated complex selectors, plus whether it parses at all.       *)
(* An absent attribute and an empty one are both the empty string: the     *)
(* code coerces null and '' alike (`href &&`, `|| ''`).                    *)
(***************************************************************************)
EXTENDS Integers, Sequences, FiniteSets, TLC

\* fn, args, ret: the function called, its arguments as they were at the
\* first call, and what the latest call gave back; for the scrape args is
\* what is to come from outside: how many clicks on Start and how many
\* midnights
\* dom: the parsed document the calls work on, as it is now
\* earlier: what the earlier calls with these arguments gave back
VARIABLES fn, args, ret, dom, earlier

\* the state of the App component:
\* articles: the article list (useState)
\* selectedArticleId: the article shown in the preview, Null for none
\* logs: the log entries, as [message, type]
\* optimizing: the calls of optimizeArticle that wait for the cleanup service,
\*   each with the article it found
VARIABLES articles, selectedArticleId, logs, optimizing

appVars == <<articles, selectedArticleId, logs, optimizing>>

\* the scrape:
\* status: the AppStatus (useState)
\* config: the ScrapeConfig (useState)
\* abortControllerRef: the AbortController of the latest run, <<>> for null
\* rateLimiterRef: the RateLimiter of the latest run, <<>> for null
\* loops: the calls of startScraping, each with the await it is suspended at
\*   and its locals
\* today: the calendar day (new Date().toISOString().split('T')[0])
\* addedToday: how many articles the runs have added to the list today
VARIABLES status, config, abortControllerRef, rateLimiterRef, loops, today, addedToday

scrapeVars == <<status, config, abortControllerRef, rateLimiterRef, loops, today, addedToday>>

vars == <<fn, args, ret, dom, earlier, articles, selectedArticleId, logs, optimizing,
          status, config, abortControllerRef, rateLimiterRef, loops, today, addedToday>>

(***************************************************************************)
(* Strings                                                                 *)
(***************************************************************************)

\* The characters the model uses, in ascending UTF-16 code-unit order.
AsciiOrder ==
    << "\t", "\n", " ", "#", "'", "(", ")", "-", ".", "/",
       "0", "1", "2", "3", "4", "5", "6", "7", "8", "9", ":",
       "A", "B", "C", "D", "E", "H", "I", "J", "L", "M", "P", "R", "S", "T", "U",
       "_",
       "a", "b", "c", "d", "e", "f", "g", "h", "i", "j", "k", "l", "m", "n",
       "o", "p", "q", "r", "s", "t", "u", "v", "w", "x", "y", "z", "|" >>

Code(c) == CHOOSE i \in DOMAIN AsciiOrder : AsciiOrder[i] = c

\* /\s/ restricted to the alphabet
IsSpace(c) == c \in {" ", "\n", "\t"}

Min(S) == CHOOSE x \in S : \A y \in S : x <= y
Max(S) == 0 - Min({0 - x : x \in S})

\* the concatenation of a sequence of sequences
RECURSIVE Concat(_)
Concat(ss) ==
    IF ss = <<>> THEN <<>>
    ELSE IF Len(ss) = 1 THEN ss[1]
    ELSE LET m == Len(ss) \div 2
         IN Concat(SubSeq(ss, 1, m)) \o Concat(SubSeq(ss, m + 1, Len(ss)))

\* n copies of the character c
Repeat(c, n) == [i \in 1..n |-> c]

\* String.prototype.startsWith
StartsWith(s, p) == Len(s) >= Len(p) /\ SubSeq(s, 1, Len(p)) = p

\* String.prototype.includes
Includes(s, p) == \E i \in 1..(Len(s) - Len(p) + 1) : SubSeq(s, i, i + Len(p) - 1) = p

\* String.prototype.indexOf, 1-based; 0 when p does not occur (JS: -1)
IndexOf(s, p) ==
    LET at == {i \in 1..(Len(s) - Len(p) + 1) : SubSeq(s, i, i + Len(p) - 1) = p}
    IN IF at = {} THEN 0 ELSE Min(at)

\* String.prototype.lastIndexOf, 1-based; 0 when p does not occur (JS: -1)
LastIndexOf(s, p) ==
    LET at == {i \in 1..(Len(s) - Len(p) + 1) : SubSeq(s, i, i + Len(p) - 1) = p}
    IN IF at = {} THEN 0 ELSE Max(at)

\* String.prototype.trim
Trim(s) ==
    LET ink == {i \in 1..Len(s) : ~IsSpace(s[i])}
    IN IF ink = {} THEN <<>> ELSE SubSeq(s, Min(ink), Max(ink))

\* str.replace(/\s+/g, ' '): every maximal run of white space becomes one blank
ReplaceSpaceRuns(s) ==
    Concat([i \in 1..Len(s) |->
               IF ~IsSpace(s[i]) THEN <<s[i]>>
               ELSE IF i > 1 /\ IsSpace(s[i - 1]) THEN <<>>
               ELSE <<" ">>])

collapseWhitespace(str) == Trim(ReplaceSpaceRuns(str))

\* Array.prototype.join on an array of strings
RECURSIVE Join(_, _)
Join(parts, sep) ==
    IF parts = <<>> THEN <<>>
    ELSE IF Len(parts) = 1 THEN parts[1]
    ELSE parts[1] \o sep \o Join(Tail(parts), sep)

\* a < b in the order of Array.prototype.sort without comparator
\* (code units, a proper prefix first)
StrLess(a, b) ==
    \E i \in 1..(Len(a) + 1) :
        /\ i <= Len(b)
        /\ SubSeq(a, 1, i - 1) = SubSeq(b, 1, i - 1)
        /\ (i = Len(a) + 1 \/ Code(a[i]) < Code(b[i]))

Range(s) == {s[i] : i \in DOMAIN s}

NoDuplicates(s) == \A i, j \in DOMAIN s : i # j => s[i] # s[j]

(***************************************************************************)
(* The parsed document (DOM) and selector queries                          *)
(***************************************************************************)

\* An element: tag and class/id are atoms, attribute values are strings.
El(tag, cls, id, kids) ==
    [tag |-> tag, cls |-> cls, id |-> id, href |-> <<>>, alt |-> <<>>,
     title |-> <<>>, data |-> <<>>, kids |-> kids]

\* A text node
Txt(data) ==
    [tag |-> "#text", cls |-> "", id |-> "", href |-> <<>>, alt |-> <<>>,
     title |-> <<>>, data |-> data, kids |-> <<>>]

\* <a href=...>text</a>; an empty text gives an anchor without text child
Anchor(href, text) ==
    [El("a", "", "", IF text = <<>> THEN <<>> ELSE <<Txt(text)>>) EXCEPT !.href = href]

\* <area href=... alt=... title=...>
Area(href, alt, title) ==
    [El("area", "", "", <<>>) EXCEPT !.href = href, !.alt = alt, !.title = title]

\* <img alt=...>
Img(alt) == [El("img", "", "", <<>>) EXCEPT !.alt = alt]

\* Node.textContent: the text of the node's descendants in document order
RECURSIVE textContent(_)
RECURSIVE TextOfAll(_)
TextOfAll(nodes) ==
    IF nodes = <<>> THEN <<>> ELSE textContent(Head(nodes)) \o TextOfAll(Tail(nodes))

textContent(node) == IF node.tag = "#text" THEN node.data ELSE TextOfAll(node.kids)

\* The elements below `nodes` in document order, each with its ancestors
\* (outermost first).
RECURSIVE Elements(_, _)
Elements(nodes, anc) ==
    IF nodes = <<>> THEN <<>>
    ELSE LET n == Head(nodes)
         IN (IF n.tag = "#text" THEN <<>>
             ELSE <<[node |-> n, anc |-> anc]>> \o Elements(n.kids, Append(anc, n)))
            \o Elements(Tail(nodes), anc)

\* One compound selector: tag, .class, #id, [href^="prefix"]; "" and <<>>
\* stand for a condition that is absent.
Compound(tag, cls, id, hrefPrefix) ==
    [tag |-> tag, cls |-> cls, id |-> id, hrefPrefix |-> hrefPrefix]

MatchesCompound(n, c) ==
    /\ n.tag # "#text"
    /\ c.tag = "" \/ c.tag = n.tag
    /\ c.cls = "" \/ c.cls = n.cls
    /\ c.id = "" \/ c.id = n.id
    /\ c.hrefPrefix = <<>> \/ StartsWith(n.href, c.hrefPrefix)

\* the descendant combinator: the compounds of `chain` match ancestors in order
RECURSIVE MatchesChain(_, _)
MatchesChain(anc, chain) ==
    \/ chain = <<>>
    \/ \E k \in 1..Len(anc) :
          /\ MatchesCompound(anc[k], chain[Len(chain)])
          /\ MatchesChain(SubSeq(anc, 1, k - 1), SubSeq(chain, 1, Len(chain) - 1))

MatchesComplex(e, cx) ==
    /\ MatchesCompound(e.node, cx[Len(cx)])
    /\ MatchesChain(e.anc, SubSeq(cx, 1, Len(cx) - 1))

\* A selector string: `list` holds its comma-separated complex selectors,
\* `valid` is whether the string parses as a selector.
Selector(src, list) == [src |-> src, valid |-> TRUE, list |-> list]
InvalidSelector(src) == [src |-> src, valid |-> FALSE, list |-> <<>>]

Matches(e, sel) == \E k \in DOMAIN sel.list : MatchesComplex(e, sel.list[k])

\* querySelectorAll below `nodes` (the children of the query's root)
querySelectorAll(nodes, anc, sel) ==
    LET Test(e) == Matches(e, sel) IN SelectSeq(Elements(nodes, anc), Test)

\* What a call gives back: a value, or the SyntaxError that querySelector and
\* querySelectorAll throw for a selector that does not parse.
Pending == [status |-> "pending"]
Returned(v) == [status |-> "returned", value |-> v]
Threw(e) == [status |-> "threw", error |-> e]

(***************************************************************************)
(* Edition Navigator: extractPageNavLinks                                  *)
(***************************************************************************)

NodeToken == <<"n", "o", "d", "e", "_">>
JavascriptWord == <<"j", "a", "v", "a", "s", "c", "r", "i", "p", "t">>
HttpWord == <<"h", "t", "t", "p">>
Slash == <<"/">>

\* SetAdd without the membership test: an array push instead of a Set
SetAddAlways(set, x) == Append(set, x)

\* Set.prototype.add on a Set kept in insertion order
SetAdd(set, x) == IF x \in Range(set) THEN set ELSE Append(set, x)

\* SortStrings that leaves the order of insertion
SortStringsInsertionOrder(s) == s

\* Array.prototype.sort() of strings: ascending code-unit order
RECURSIVE SortStrings(_)
SortStrings(s) ==
    IF s = <<>> THEN <<>>
    ELSE LET front == SortStrings(SubSeq(s, 1, Len(s) - 1))
             x == s[Len(s)]
             k == Cardinality({i \in 1..Len(front) : ~StrLess(x, front[i])})
         IN SubSeq(front, 1, k) \o <<x>> \o SubSeq(front, k + 1, Len(front))

\* baseUrl.substring(0, baseUrl.lastIndexOf('/') + 1)
Directory(baseUrl) == SubSeq(baseUrl, 1, LastIndexOf(baseUrl, Slash))

\* href.startsWith('http') ? href : directory + href
ResolveUrl(directory, href) ==
    IF StartsWith(href, HttpWord) THEN href ELSE directory \o href

\* the filter of the page-link loop
IsPageHref(href) ==
    href # <<>> /\ Includes(href, NodeToken) /\ ~StartsWith(href, JavascriptWord)

extractPageNavLinks(doc, baseUrl, selector) ==
    IF ~selector.valid THEN Threw("SyntaxError")
    ELSE
      LET links == querySelectorAll(doc.body, <<>>, selector)
          directory == Directory(baseUrl)
          uniqueUrls[i \in 0..Len(links)] ==
              IF i = 0 THEN SetAdd(<<>>, baseUrl)
              ELSE LET href == links[i].node.href
                   IN IF IsPageHref(href)
                      THEN SetAdd(uniqueUrls[i - 1], ResolveUrl(directory, href))
                      ELSE uniqueUrls[i - 1]
      IN Returned(SortStrings(uniqueUrls[Len(links)]))

(***************************************************************************)
(* Article Link Extractor: extractArticleLinks                             *)
(***************************************************************************)

Hash == <<"#">>
JavascriptScheme == <<"j", "a", "v", "a", "s", "c", "r", "i", "p", "t", ":">>

\* the length a replacing link text must stay under
HintCeiling == 100

\* Map.prototype.has / get / set on a Map kept in insertion order, as a
\* sequence of [url, title] entries
MapHas(map, k) == \E i \in DOMAIN map : map[i].url = k

MapGet(map, k) ==
    IF MapHas(map, k) THEN map[CHOOSE i \in DOMAIN map : map[i].url = k].title ELSE <<>>

\* MapSet without the lookup of the key: an array push instead of a Map
MapSetAppend(map, k, v) == Append(map, [url |-> k, title |-> v])

\* MapSet that moves a key it updates to the end: delete, then set
MapSetMovingToEnd(map, k, v) ==
    LET Other(e) == e.url # k
    IN Append(SelectSeq(map, Other), [url |-> k, title |-> v])

MapSet(map, k, v) ==
    IF MapHas(map, k)
    THEN [i \in DOMAIN map |-> IF map[i].url = k THEN [url |-> k, title |-> v] ELSE map[i]]
    ELSE Append(map, [url |-> k, title |-> v])

\* the filter of the article-link loop
IsArticleHref(href) ==
    href # <<>> /\ href # Hash /\ ~StartsWith(href, JavascriptScheme)

\* the title hint a matched node offers
LinkText(link) ==
    LET own == Trim(textContent(link))
    IN IF own = <<>> /\ link.tag = "area"
       THEN (IF link.alt # <<>> THEN link.alt ELSE link.title)
       ELSE own

\* whether the candidate may replace the stored hint
BetterTitle(existingTitle, linkText) ==
    \/ existingTitle = <<>>
    \/ Len(linkText) > Len(existingTitle) /\ Len(linkText) < HintCeiling

\* the body of the loop for one accepted link
KeepBest(urlMap, fullUrl, linkText) ==
    IF BetterTitle(MapGet(urlMap, fullUrl), linkText)
    THEN IF Len(linkText) > 0 THEN MapSet(urlMap, fullUrl, linkText)
         ELSE IF ~MapHas(urlMap, fullUrl) THEN MapSet(urlMap, fullUrl, <<>>)
         ELSE urlMap
    ELSE urlMap

extractArticleLinks(doc, baseUrl, selector) ==
    IF ~selector.valid THEN Threw("SyntaxError")
    ELSE
      LET links == querySelectorAll(doc.body, <<>>, selector)
          directory == Directory(baseUrl)
          urlMap[i \in 0..Len(links)] ==
              IF i = 0 THEN <<>>
              ELSE LET link == links[i].node
                   IN IF IsArticleHref(link.href)
                      THEN KeepBest(urlMap[i - 1], ResolveUrl(directory, link.href),
                                    LinkText(link))
                      ELSE urlMap[i - 1]
      IN Returned(urlMap[Len(links)])

(***************************************************************************)
(* Article Content Resolver: parseArticleContent                           *)
(***************************************************************************)

UntitledArticle ==
    <<"U", "n", "t", "i", "t", "l", "e", "d", " ", "A", "r", "t", "i", "c", "l", "e">>
Ellipsis == <<".", ".", ".">>
Blank == <<" ">>
BlankLine == <<"\n", "\n">>
Newline == <<"\n">>

\* the longest title that is returned whole
TitleLimit == 200
\* the shortest title of the page itself that the link hint does not replace
MinTitleLength == 2

Class(c) == <<Compound("", c, "", <<>>)>>
TagClass(t, c) == <<Compound(t, c, "", <<>>)>>
Tag(t) == <<Compound(t, "", "", <<>>)>>
Id(i) == <<Compound("", "", i, <<>>)>>

IntroSelector ==
    Selector(".yinbiaoti, td.font00, .intro_title",
             <<Class("yinbiaoti"), TagClass("td", "font00"), Class("intro_title")>>)
MainSelector ==
    Selector(".zhubiaoti, td.font01, .main_title, #title, h1",
             <<Class("zhubiaoti"), TagClass("td", "font01"), Class("main_title"),
               Id("title"), Tag("h1")>>)
SubSelector ==
    Selector(".fubiaoti, td.font02, .sub_title",
             <<Class("fubiaoti"), TagClass("td", "font02"), Class("sub_title")>>)
TitleImgSelector ==
    Selector("td.font01 img, .main_title img",
             <<TagClass("td", "font01") \o Tag("img"), Class("main_title") \o Tag("img")>>)
ParagraphSelector == Selector("p", <<Tag("p")>>)
BlockTags == {"div", "p", "tr"}

\* doc.querySelector(sel): the first match in document order, as a sequence
\* of no or one element (null is the empty sequence)
querySelector(doc, sel) ==
    LET all == querySelectorAll(doc.body, <<>>, sel)
    IN IF all = <<>> THEN <<>> ELSE <<all[1]>>

\* el ? collapseWhitespace(el.textContent || '') : ''
CollapsedText(found) ==
    IF found = <<>> THEN <<>> ELSE collapseWhitespace(textContent(found[1].node))

introTitle(doc) == CollapsedText(querySelector(doc, IntroSelector))
mainTitle(doc) == CollapsedText(querySelector(doc, MainSelector))
subTitle(doc) == CollapsedText(querySelector(doc, SubSelector))

\* StructuredTitle without the filter of the empty pieces
StructuredTitleUnfiltered(doc) ==
    Join(<<introTitle(doc), mainTitle(doc), subTitle(doc)>>, Blank)

\* [introTitle, mainTitle, subTitle].filter(t => t.length > 0).join(' ')
StructuredTitle(doc) ==
    LET NonEmpty(t) == Len(t) > 0
    IN Join(SelectSeq(<<introTitle(doc), mainTitle(doc), subTitle(doc)>>, NonEmpty), Blank)

\* Strategy 2: the caller's title selector (a selector that parses)
GenericTitle(doc, titleSelector) == CollapsedText(querySelector(doc, titleSelector))

\* Strategies 1 and 2
HeadlineTitle(doc, selectors) ==
    IF mainTitle(doc) # <<>> THEN StructuredTitle(doc)
    ELSE GenericTitle(doc, selectors.title)

\* Strategy 3: the alt text of an image in the main-headline container
ImageAltTitle(doc, titleText) ==
    IF titleText = <<>>
    THEN LET titleImg == querySelector(doc, TitleImgSelector)
         IN IF titleImg # <<>> THEN titleImg[1].node.alt ELSE titleText
    ELSE titleText

\* LinkHintTitle that replaces an empty title only
LinkHintTitleWhenEmpty(titleText, fallbackTitle) ==
    IF titleText = <<>> /\ fallbackTitle # <<>> THEN fallbackTitle ELSE titleText

\* Strategy 4: the link text found on the index page
LinkHintTitle(titleText, fallbackTitle) ==
    IF (titleText = <<>> \/ Len(titleText) < MinTitleLength) /\ fallbackTitle # <<>>
    THEN fallbackTitle
    ELSE titleText

\* StripSuffix that cuts at the earliest position of any separator
StripSuffixEarliest(pageTitle, separators) ==
    LET at == {i \in 1..Len(pageTitle) : pageTitle[i] \in Range(separators)}
    IN IF at = {} THEN pageTitle ELSE SubSeq(pageTitle, 1, Min(at) - 1)

\* the for loop over ['-', '_', '|']: cut at the first separator, in this
\* order, that the page title contains
RECURSIVE StripSuffix(_, _)
StripSuffix(pageTitle, separators) ==
    IF separators = <<>> THEN pageTitle
    ELSE IF Includes(pageTitle, <<Head(separators)>>)
         THEN SubSeq(pageTitle, 1, IndexOf(pageTitle, <<Head(separators)>>) - 1)
         ELSE StripSuffix(pageTitle, Tail(separators))

Separators == <<"-", "_", "|">>

\* Strategy 5: the document's <title>
PageTitle(doc, titleText) ==
    IF titleText = <<>> \/ titleText = UntitledArticle
    THEN IF doc.title # <<>> THEN Trim(StripSuffix(doc.title, Separators)) ELSE titleText
    ELSE titleText

\* DefaultTitle without the sentinel
DefaultTitleKeep(titleText) == titleText

\* if (!titleText) titleText = 'Untitled Article'
DefaultTitle(titleText) == IF titleText = <<>> THEN UntitledArticle ELSE titleText

\* the title before truncation, for selectors that are consulted and parse
ResolveTitle(doc, selectors, fallbackTitle) ==
    DefaultTitle(
        PageTitle(doc,
            LinkHintTitle(ImageAltTitle(doc, HeadlineTitle(doc, selectors)),
                          fallbackTitle)))

\* TruncateTitle with >= for >
TruncateTitleFromLimit(titleText) ==
    IF Len(titleText) >= TitleLimit
    THEN SubSeq(titleText, 1, TitleLimit) \o Ellipsis
    ELSE titleText

\* titleText.substring(0, 200) + "..." for a title over 200 characters
TruncateTitle(titleText) ==
    IF Len(titleText) > TitleLimit
    THEN SubSeq(titleText, 1, TitleLimit) \o Ellipsis
    ELSE titleText

\* ParagraphText joined by a single newline
ParagraphTextSingleNewline(ps) ==
    Join([i \in DOMAIN ps |-> Trim(textContent(ps[i].node))], Newline)

\* paragraphs.map(p => p.textContent?.trim()).join('\n\n')
ParagraphText(ps) ==
    Join([i \in DOMAIN ps |-> Trim(textContent(ps[i].node))], BlankLine)

\* The clone after brs.forEach(br => br.replaceWith('\n')) and
\* blockElements.forEach(el => el.after('\n')), for the children of a node
RECURSIVE RewriteBreaks(_)
RewriteBreaks(nodes) ==
    IF nodes = <<>> THEN <<>>
    ELSE LET n == Head(nodes)
             this == IF n.tag = "br" THEN <<Txt(Newline)>>
                     ELSE IF n.tag = "#text" THEN <<n>>
                     ELSE IF n.tag \in BlockTags
                          THEN <<[n EXCEPT !.kids = RewriteBreaks(n.kids)], Txt(Newline)>>
                          ELSE <<[n EXCEPT !.kids = RewriteBreaks(n.kids)]>>
         IN this \o RewriteBreaks(Tail(nodes))

\* the ends q of a match of /\n\s*\n/ that starts at p
BlankRunEnds(s, p) ==
    {q \in (p + 1)..Len(s) : s[q] = "\n" /\ \A k \in (p + 1)..(q - 1) : IsSpace(s[k])}

\* contentText.replace(/\n\s*\n/g, '\n\n'): leftmost matches, each as long
\* as it can be
RECURSIVE CollapseBlankLines(_)
CollapseBlankLines(s) ==
    LET starts == {p \in 1..Len(s) : s[p] = "\n" /\ BlankRunEnds(s, p) # {}}
    IN IF starts = {} THEN s
       ELSE LET p == Min(starts)
                q == Max(BlankRunEnds(s, p))
            IN SubSeq(s, 1, p - 1) \o BlankLine
                   \o CollapseBlankLines(SubSeq(s, q + 1, Len(s)))

\* ContainerText without the replace of the blank runs
ContainerTextUncollapsed(contentEl) ==
    Trim(TextOfAll(RewriteBreaks(contentEl.node.kids)))

\* the fallback for a content root without paragraphs
ContainerText(contentEl) ==
    Trim(CollapseBlankLines(TextOfAll(RewriteBreaks(contentEl.node.kids))))

\* the content for a content selector that parses
ResolveContent(doc, contentSelector) ==
    LET contentEl == querySelector(doc, contentSelector)
    IN IF contentEl = <<>> THEN <<>>
       ELSE LET ps == querySelectorAll(contentEl[1].node.kids,
                                       Append(contentEl[1].anc, contentEl[1].node),
                                       ParagraphSelector)
            IN IF Len(ps) > 0 THEN ParagraphText(ps) ELSE ContainerText(contentEl[1])

\* the nodes with the children of the first element that sel matches, in
\* document order, rewritten as RewriteBreaks rewrites them
RECURSIVE RewriteRootIn(_, _, _)
RewriteRootIn(nodes, anc, sel) ==
    IF nodes = <<>> THEN [nodes |-> <<>>, found |-> FALSE]
    ELSE LET n == Head(nodes)
         IN IF n.tag # "#text" /\ Matches([node |-> n, anc |-> anc], sel)
            THEN [nodes |-> <<[n EXCEPT !.kids = RewriteBreaks(n.kids)]>> \o Tail(nodes),
                  found |-> TRUE]
            ELSE LET inner == IF n.tag = "#text" THEN [nodes |-> <<>>, found |-> FALSE]
                              ELSE RewriteRootIn(n.kids, Append(anc, n), sel)
                     rest == RewriteRootIn(Tail(nodes), anc, sel)
                 IN IF inner.found
                    THEN [nodes |-> <<[n EXCEPT !.kids = inner.nodes]>> \o Tail(nodes),
                          found |-> TRUE]
                    ELSE [nodes |-> <<n>> \o rest.nodes, found |-> rest.found]

\* DocumentAfterResolve without cloneNode: replaceWith and after applied to
\* the content root of the document itself
DocumentAfterResolveInPlace(doc, selectors) ==
    IF (mainTitle(doc) = <<>> /\ ~selectors.title.valid) \/ ~selectors.content.valid
    THEN doc
    ELSE LET contentEl == querySelector(doc, selectors.content)
         IN IF contentEl = <<>> THEN doc
            ELSE IF Len(querySelectorAll(contentEl[1].node.kids, <<>>, ParagraphSelector)) > 0
                 THEN doc
                 ELSE [doc EXCEPT !.body = RewriteRootIn(doc.body, <<>>, selectors.content).nodes]

\* the document after a call: the function only reads it; replaceWith and
\* after are applied to the copy that contentEl.cloneNode(true) made, and the
\* copy is dropped at the return
DocumentAfterResolve(doc, selectors) == doc

parseArticleContent(doc, selectors, fallbackTitle) ==
    IF mainTitle(doc) = <<>> /\ ~selectors.title.valid THEN Threw("SyntaxError")
    ELSE IF ~selectors.content.valid THEN Threw("SyntaxError")
    ELSE Returned([title |-> TruncateTitle(ResolveTitle(doc, selectors, fallbackTitle)),
                   content |-> ResolveContent(doc, selectors.content)])

(***************************************************************************)
(* Encoding-Aware Document Loader: fetchUrl                                *)
(*                                                                         *)
(* A buffer is a sequence of bytes 0..255; the decoded text is a sequence  *)
(* of UTF-16 code units, as numbers.                                       *)
(***************************************************************************)

\* the code units of the ASCII characters the Loader's inputs and its regular
\* expression use
CodeUnitOf ==
    ("\"" :> 34) @@ ("'" :> 39) @@ ("-" :> 45) @@ ("1" :> 49) @@ ("2" :> 50)
    @@ ("3" :> 51) @@ ("8" :> 56) @@ ("=" :> 61) @@ (">" :> 62) @@ ("B" :> 66)
    @@ ("G" :> 71) @@ ("K" :> 75) @@ ("a" :> 97) @@ ("b" :> 98) @@ ("c" :> 99)
    @@ ("e" :> 101) @@ ("f" :> 102) @@ ("g" :> 103) @@ ("h" :> 104)
    @@ ("k" :> 107) @@ ("r" :> 114) @@ ("s" :> 115) @@ ("t" :> 116)
    @@ ("u" :> 117)

\* a string literal of the source as code units (as bytes, when ASCII)
CodeUnits(s) == [i \in DOMAIN s |-> CodeUnitOf[s[i]]]

\* '\uFFFD'
ReplacementChar == 65533

\* ---- new TextDecoder('utf-8').decode(buffer): the UTF-8 decoder of the
\* Encoding Standard, errors replaced by U+FFFD, a leading byte order mark
\* removed

\* the code units of a decoded code point (a surrogate pair above U+FFFF)
Utf16(cp) ==
    IF cp < 65536 THEN <<cp>>
    ELSE <<55296 + ((cp - 65536) \div 1024), 56320 + ((cp - 65536) % 1024)>>

\* the bytes still needed after a lead byte, 0 for a byte that leads nothing
Utf8Needed(x) ==
    IF x >= 194 /\ x <= 223 THEN 1
    ELSE IF x >= 224 /\ x <= 239 THEN 2
    ELSE IF x >= 240 /\ x <= 244 THEN 3
    ELSE 0

\* the bits of the code point a lead byte carries
Utf8LeadBits(x) ==
    IF Utf8Needed(x) = 1 THEN x - 192
    ELSE IF Utf8Needed(x) = 2 THEN x - 224
    ELSE x - 240

\* the least and greatest second byte a lead byte admits
Utf8Lower(x) == IF x = 224 THEN 160 ELSE IF x = 240 THEN 144 ELSE 128
Utf8Upper(x) == IF x = 237 THEN 159 ELSE IF x = 244 THEN 143 ELSE 191

\* the decoder at byte i with `seen` of `needed` continuation bytes read into
\* cp, the next byte to lie in lower..upper
RECURSIVE Utf8From(_, _, _, _, _, _, _)
Utf8From(b, i, cp, needed, seen, lower, upper) ==
    IF i > Len(b) THEN (IF needed # 0 THEN <<ReplacementChar>> ELSE <<>>)
    ELSE IF needed = 0
         THEN IF b[i] <= 127 THEN <<b[i]>> \o Utf8From(b, i + 1, 0, 0, 0, 128, 191)
              ELSE IF Utf8Needed(b[i]) = 0
                   THEN <<ReplacementChar>> \o Utf8From(b, i + 1, 0, 0, 0, 128, 191)
                   ELSE Utf8From(b, i + 1, Utf8LeadBits(b[i]), Utf8Needed(b[i]), 0,
                                 Utf8Lower(b[i]), Utf8Upper(b[i]))
         ELSE IF b[i] < lower \/ b[i] > upper
              THEN <<ReplacementChar>> \o Utf8From(b, i, 0, 0, 0, 128, 191)
              ELSE IF seen + 1 = needed
                   THEN Utf16(cp * 64 + (b[i] - 128))
                            \o Utf8From(b, i + 1, 0, 0, 0, 128, 191)
                   ELSE Utf8From(b, i + 1, cp * 64 + (b[i] - 128), needed, seen + 1,
                                 128, 191)

ByteOrderMark == <<239, 187, 191>>

Utf8Decode(buffer) ==
    IF StartsWith(buffer, ByteOrderMark)
    THEN Utf8From(buffer, 4, 0, 0, 0, 128, 191)
    ELSE Utf8From(buffer, 1, 0, 0, 0, 128, 191)

\* ---- new TextDecoder('gbk').decode(buffer): the gb18030 decoder of the
\* Encoding Standard, which the label 'gbk' selects, errors replaced by U+FFFD

\* the two-byte characters of the index the model knows by code point
GbkKnown ==
    (<<214, 208>> :> 20013) @@ (<<228, 184>> :> 28051) @@ (<<239, 191>> :> 38175)
    @@ (<<189, 239>> :> 26020) @@ (<<191, 189>> :> 25335) @@ (<<194, 169>> :> 28431)

\* stands for every other character of the index: the index has a code
\* point, neither ASCII nor U+FFFD, for every pair of lead and trail byte
GbkOtherChar == 57344

GbkIndex(lead, trail) ==
    IF <<lead, trail>> \in DOMAIN GbkKnown THEN GbkKnown[<<lead, trail>>] ELSE GbkOtherChar

GbkIsLead(x) == x >= 129 /\ x <= 254
GbkIsTrail(y) == (y >= 64 /\ y <= 126) \/ (y >= 128 /\ y <= 254)
GbkIsDigit(y) == y >= 48 /\ y <= 57

\* the decoder at byte i
RECURSIVE GbkFrom(_, _)
GbkFrom(b, i) ==
    IF i > Len(b) THEN <<>>
    ELSE IF b[i] <= 127 THEN <<b[i]>> \o GbkFrom(b, i + 1)
    ELSE IF b[i] = 128 THEN <<8364>> \o GbkFrom(b, i + 1)
    ELSE IF ~GbkIsLead(b[i]) THEN <<ReplacementChar>> \o GbkFrom(b, i + 1)
    ELSE IF i = Len(b) THEN <<ReplacementChar>>
    ELSE IF GbkIsTrail(b[i + 1]) THEN <<GbkIndex(b[i], b[i + 1])>> \o GbkFrom(b, i + 2)
    ELSE IF GbkIsDigit(b[i + 1])
         THEN \* a four-byte sequence: lead, digit, lead, digit
              IF i + 2 > Len(b) THEN <<ReplacementChar>>
              ELSE IF ~GbkIsLead(b[i + 2]) THEN <<ReplacementChar>> \o GbkFrom(b, i + 1)
              ELSE IF i + 3 > Len(b) THEN <<ReplacementChar>>
              ELSE IF ~GbkIsDigit(b[i + 3]) THEN <<ReplacementChar>> \o GbkFrom(b, i + 1)
              ELSE <<GbkOtherChar>> \o GbkFrom(b, i + 4)
    ELSE IF b[i + 1] <= 127 THEN <<ReplacementChar>> \o GbkFrom(b, i + 1)
    ELSE <<ReplacementChar>> \o GbkFrom(b, i + 2)

GbkDecode(buffer) == GbkFrom(buffer, 1)

\* ---- the detection of a legacy encoding

\* the case folding of the i flag, for the ASCII letters of the expression
FoldCase(u) == IF u >= 65 /\ u <= 90 THEN u + 32 ELSE u

\* the literal lit matches text at position i, letter case ignored
MatchesAt(text, i, lit) ==
    /\ i + Len(lit) - 1 <= Len(text)
    /\ \A k \in DOMAIN lit : FoldCase(text[i + k - 1]) = lit[k]

CharsetEquals == CodeUnits(<<"c", "h", "a", "r", "s", "e", "t", "=">>)
LegacyNames == {CodeUnits(<<"g", "b", "2", "3", "1", "2">>), CodeUnits(<<"g", "b", "k">>)}
Quotes == {CodeUnitOf["\""], CodeUnitOf["'"]}

\* /charset=["']?(gb2312|gbk)["']/i.test(text)
hasGBKMeta(text) ==
    \E i \in DOMAIN text :
        /\ MatchesAt(text, i, CharsetEquals)
        /\ \E open \in {0, 1}, name \in LegacyNames :
              /\ open = 1 => (i + 8 <= Len(text) /\ text[i + 8] \in Quotes)
              /\ MatchesAt(text, i + 8 + open, name)
              /\ i + 8 + open + Len(name) <= Len(text)
              /\ text[i + 8 + open + Len(name)] \in Quotes

\* text.includes('\uFFFD')
hasReplacementChars(text) == ReplacementChar \in Range(text)

\* DecodeBuffer without the second pass
DecodeBufferDefaultOnly(buffer, gbkSupported) == Utf8Decode(buffer)

\* the text handed to the parser: the UTF-8 decode, replaced by the GBK
\* decode when a signal fires, the decoder can be built and its text is not
\* empty; new TextDecoder('gbk') throws a RangeError, which the catch
\* swallows, where the encoding is not supported
DecodeBuffer(buffer, gbkSupported) ==
    LET text == Utf8Decode(buffer)
    IN IF hasGBKMeta(text) \/ hasReplacementChars(text)
       THEN IF gbkSupported
            THEN LET gbkText == GbkDecode(buffer)
                 IN IF Len(gbkText) > 0 THEN gbkText ELSE text
            ELSE text
       ELSE text

\* fetch rejects, or resolves with a response that is ok or not; a response
\* that is not ok makes fetchUrl throw, an ok one gives the parsed text
fetchUrl(response, gbkSupported) ==
    IF response.kind = "rejected" THEN Threw("TypeError")
    ELSE IF ~response.ok THEN Threw("Error")
    ELSE Returned([text |-> DecodeBuffer(response.buffer, gbkSupported)])

(***************************************************************************)
(* AI cleanup: cleanContentWithGemini, optimizeArticle, deleteArticle      *)
(***************************************************************************)

\* cleanContentWithGemini that lets the failure of the service through
cleanContentWithGeminiRethrowing(rawText, title, service) ==
    IF service.kind = "rejected" THEN Threw("Error")
    ELSE Returned(service.text)

\* The call of the service is inside try: a client that cannot be built or a
\* request that fails ends in the catch, which returns rawText; a response
\* without text (undefined or '') gives rawText as well.
cleanContentWithGemini(rawText, title, service) ==
    IF service.kind = "rejected" THEN Returned(rawText)
    ELSE IF service.text = <<>> THEN Returned(rawText)
    ELSE Returned(service.text)

\* `# ${title}\n\n**Date:** ${date} | **Page:** ${pageNum}\n\n${content}`
ScrapedMarkdown(title, date, page, content) ==
    <<"#", " ">> \o title \o <<"\n", "\n", "*", "*", "D", "a", "t", "e", ":", "*", "*", " ">> \o date \o <<" ", "|", " ", "*", "*", "P", "a", "g", "e", ":", "*", "*", " ">> \o page \o BlankLine \o content

\* `# ${article.title}\n\n**Date:** ${article.date} | **Page:** ${article.page}\n
\*  **Source:** [Link](${article.url})\n\n---\n\n${cleanMd}`
RefinedMarkdown(article, cleanMd) ==
    <<"#", " ">> \o article.title \o <<"\n", "\n", "*", "*", "D", "a", "t", "e", ":", "*", "*", " ">> \o article.date \o <<" ", "|", " ", "*", "*", "P", "a", "g", "e", ":", "*", "*", " ">> \o article.page
        \o <<"\n", "*", "*", "S", "o", "u", "r", "c", "e", ":", "*", "*", " ", "[", "L", "i", "n", "k", "]", "(">> \o article.url \o <<")", "\n", "\n", "-", "-", "-", "\n", "\n">> \o cleanMd

\* articles.find(a => a.id === id), as a sequence of no or one article
FindArticle(list, id) ==
    LET Is(a) == a.id = id
        found == SelectSeq(list, Is)
    IN IF found = <<>> THEN <<>> ELSE <<found[1]>>

\* prev.map(a => a.id === id ? { ...a, markdown: refinedMd } : a)
SetMarkdown(prev, id, refinedMd) ==
    [i \in DOMAIN prev |->
        IF prev[i].id = id THEN [prev[i] EXCEPT !.markdown = refinedMd] ELSE prev[i]]

\* prev.filter(a => a.id !== id)
WithoutArticle(prev, id) == LET Other(a) == a.id # id IN SelectSeq(prev, Other)

\* setLogs(prev => [...prev, { message, type }])
addLog(prev, message, type) == Append(prev, [message |-> message, type |-> type])

\* a sequence without its k-th element
RemoveAt(seq, k) == SubSeq(seq, 1, k - 1) \o SubSeq(seq, k + 1, Len(seq))

(***************************************************************************)
(* The scrape: RateLimiter, fetchWithRetry, startScraping, stopScraping     *)
(*                                                                         *)
(* startScraping is an async function: it runs from one await to the next  *)
(* without interruption, and clicks, timers and responses come in between. *)
(* A call is a record of the await it is suspended at (pc) and its locals: *)
(*   what, retries   the fetchWithRetry under way and its retries argument *)
(*   d, i, j         the date, the page of nodesToScan and the link of     *)
(*                   articleLinks it is at, counted from 1                 *)
(*   seen            the urls of `articles` as the closure captured them   *)
(*   stopped         stopScraping was invoked while this was the latest run*)
(*   sinceCooldown   the dates begun since the last cooldown of this call  *)
(* Waiting times are not modelled, nor are the progress bar and the log    *)
(* lines about single dates, pages and articles: of the log the scrape     *)
(* keeps the lines about the run as a whole.                               *)
(***************************************************************************)

\* a || b for numbers: undefined, NaN and 0 give the default
Or(value, default) == IF value = 0 THEN default ELSE value

\* ---- RateLimiter (src/services/antibot.ts)
resetIfNewDay(limiter, day) ==
    IF limiter.lastResetDate # day
    THEN [limiter EXCEPT !.processedArticlesToday = 0, !.lastResetDate = day]
    ELSE limiter

\* lastResetDate = '' is day 0, which no day is
RateLimiter(batchSize, dailyArticleLimit, day) ==
    resetIfNewDay([batchSize |-> batchSize,
                   dailyArticleLimit |-> dailyArticleLimit,
                   processedDates |-> 0,
                   processedArticlesToday |-> 0,
                   lastResetDate |-> 0], day)

\* batchStartTime is written here and read nowhere
checkBatchLimit(limiter) ==
    [shouldCooldown |-> limiter.processedDates # 0
                        /\ limiter.processedDates % limiter.batchSize = 0]

markDateProcessed(limiter) == [limiter EXCEPT !.processedDates = @ + 1]

\* the limiter after the call and what the call returns
checkDailyLimit(limiter, day) ==
    LET l == resetIfNewDay(limiter, day)
    IN [limiter |-> l,
        canProceed |-> l.dailyArticleLimit = 0
                       \/ l.processedArticlesToday < l.dailyArticleLimit]

markArticleProcessed(limiter) == [limiter EXCEPT !.processedArticlesToday = @ + 1]

\* ---- scraperService.generateDateRange: the dates are numbered days, 0 is a
\* string that is no date
generateDateRange(start, end) ==
    IF start = 0 \/ end = 0 THEN <<>>
    ELSE [k \in 1..(end - start + 1) |-> start + k - 1]

\* fetchWithRetry that calls itself again after every failure, the attempts
\* not counted
fetchWithRetryForever(cfg, retries, response) ==
    IF response # "failed" THEN [status |-> "returned"]
    ELSE [status |-> "retry", retries |-> retries]

\* ---- fetchWithRetry once its fetchUrl has settled: the document, one more
\* attempt after the retry delay, or the error
fetchWithRetry(cfg, retries, response) ==
    LET maxRetries == Or(cfg.maxRetries, 3)
    IN IF response # "failed" THEN [status |-> "returned"]
       ELSE IF retries < maxRetries THEN [status |-> "retry", retries |-> retries + 1]
       ELSE [status |-> "threw"]

\* ---- startScraping
\* abortControllerRef.current?.signal.aborted
Aborted(ref) == ref # <<>> /\ ref[1].aborted

\* a call that has returned
LoopDone ==
    [pc |-> "done", what |-> "none", retries |-> 0, d |-> 0, i |-> 0, j |-> 0,
     seen |-> {}, stopped |-> FALSE, sinceCooldown |-> 0]

\* the call suspended at an await
At(l, pc, what) == [l EXCEPT !.pc = pc, !.what = what, !.retries = 0]

\* the dates of the run
Dates == generateDateRange(config.startDate, config.endDate)

\* pageNodes.slice(0, config.maxPages) that keeps every page
nodesToScanUncapped(pageNodes) == pageNodes

\* pageNodes.slice(0, config.maxPages)
nodesToScan(pageNodes) == SubSeq(pageNodes, 1, Min({Len(pageNodes), config.maxPages}))

\* In the operators below w is the state a stretch of startScraping works on:
\* its own call (l), rateLimiterRef.current (rl), abortControllerRef.current
\* (ac), the status and the log.

\* after the loop over the dates: setStatus(COMPLETED), 'Job completed!'
Finish(w) ==
    [w EXCEPT !.l = LoopDone, !.status = "COMPLETED",
              !.logs = addLog(@, "Job completed!", "success")]

\* the body of the loop over the dates, from its top to the first await
DateLoop(w) ==
    IF w.l.d > Len(Dates) \/ Aborted(w.ac) THEN Finish(w)
    ELSE IF w.rl # <<>> /\ checkBatchLimit(w.rl[1]).shouldCooldown
    THEN [w EXCEPT !.l = At(@, "cooldown", "none")]
    ELSE [w EXCEPT !.l = At(@, "fetch", "entry"),
                   !.l.sinceCooldown = IF w.rl = <<>> THEN 0 ELSE @ + 1]

\* the catch of the entry page that gives up the run (Global Error)
SkipDateRethrowing(w) == [w EXCEPT !.l = LoopDone, !.status = "ERROR"]

\* the catch of the entry page: processedCount++, continue
SkipDate(w) == DateLoop([w EXCEPT !.l.d = @ + 1, !.l.i = 0, !.l.j = 0])

\* the end of the body: processedCount++, markDateProcessed, the next date
EndDate(w) ==
    DateLoop([w EXCEPT !.l.d = @ + 1, !.l.i = 0, !.l.j = 0,
                       !.rl = IF @ = <<>> THEN @ ELSE <<markDateProcessed(@[1])>>])


\* ---- the site the scrape reads: every edition has the pages 1 (the entry
\* page) to MaxSitePages; the first page links to the articles 1 and 2, the
\* second one to article 2 again, the further ones to none
MaxSitePages == 3

\* what extractPageNavLinks gives for the entry page of a date: the page
\* urls, sorted
EditionPages(date) == [p \in 1..MaxSitePages |-> p]

\* the urls of what extractArticleLinks gives for a page
PageLinks(date, page) ==
    IF page = 1 THEN <<1, 2>> ELSE IF page = 2 THEN <<2>> ELSE <<>>

\* pageNodes: the discovered pages, or the entry page alone
pageNodes(date) ==
    LET discoveredNodes == EditionPages(date)
    IN IF Len(discoveredNodes) > 0 THEN discoveredNodes ELSE <<1>>

\* the page and the links a call is at
NodesOf(l) == nodesToScan(pageNodes(Dates[l.d]))
NodeUrl(l) == NodesOf(l)[l.i]
articleLinks(l) == PageLinks(Dates[l.d], NodeUrl(l))

\* the loop over nodesToScan, from its test to the first await
PageLoop(w) ==
    IF w.l.i > Len(NodesOf(w.l)) \/ Aborted(w.ac) THEN EndDate(w)
    ELSE [w EXCEPT !.l = At(@, "fetch", "node"), !.l.j = 0]

\* the end of the body of the loop over nodesToScan: the delay between pages
AfterPage(w) ==
    IF w.l.i < Len(NodesOf(w.l))
    THEN [w EXCEPT !.l = At(@, "pageDelay", "none"), !.l.j = 0]
    ELSE PageLoop([w EXCEPT !.l.i = @ + 1, !.l.j = 0])

\* articles.some(a => a.url === linkObj.url): `articles` is the list the
\* closure of startScraping captured when the run was started
IsDuplicate(l, url) == url \in l.seen

\* the loop over articleLinks, from its test to the first await
RECURSIVE ArticleLoop(_)
ArticleLoop(w) ==
    IF w.l.j > Len(articleLinks(w.l)) \/ Aborted(w.ac) THEN AfterPage(w)
    ELSE LET dailyCheck == IF w.rl = <<>> THEN [canProceed |-> TRUE]
                           ELSE checkDailyLimit(w.rl[1], today)
             checked == [w EXCEPT !.rl = IF @ = <<>> THEN @ ELSE <<dailyCheck.limiter>>]
         IN IF ~dailyCheck.canProceed
            THEN [checked EXCEPT !.l = LoopDone, !.status = "COMPLETED",
                                 !.logs = addLog(@, "Daily article limit reached", "warning")]
            ELSE IF IsDuplicate(w.l, articleLinks(w.l)[w.l.j])
            THEN ArticleLoop([checked EXCEPT !.l.j = @ + 1])
            ELSE [checked EXCEPT !.l = At(@, "articleDelay", "none")]

\* the catch of a page: the error is logged
AfterFailedPage(w) == AfterPage(w)

\* the catch of an article: the error is logged
AfterFailedArticle(w) == ArticleLoop([w EXCEPT !.l.j = @ + 1])

\* what the call does once the fetchWithRetry it awaits has thrown
Caught(w) ==
    IF w.l.what = "entry" THEN SkipDate(w)
    ELSE IF w.l.what = "node" THEN AfterFailedPage(w)
    ELSE AfterFailedArticle(w)

\* what the call does with the document of the entry page or of a page
Fetched(w) ==
    IF w.l.what = "entry" THEN [w EXCEPT !.l = At(@, "entryDelay", "none")]
    ELSE IF Len(articleLinks(w.l)) = 0 THEN [w EXCEPT !.l = At(@, "emptyDelay", "none")]
    ELSE ArticleLoop([w EXCEPT !.l.j = 1])

\* newArticle: title, content and markdown are those of parseArticleContent
\* and are not carried here
NewArticle(l) ==
    [url |-> articleLinks(l)[l.j], date |-> Dates[l.d], page |-> l.i, status |-> "success"]

\* what the call does once the delay it awaits is over
Resumed(w) ==
    IF w.l.pc = "cooldown"
    THEN [w EXCEPT !.l = At(@, "fetch", "entry"), !.l.sinceCooldown = 1]
    ELSE IF w.l.pc = "retryDelay" THEN [w EXCEPT !.l.pc = "fetch"]
    ELSE IF w.l.pc = "entryDelay" THEN PageLoop([w EXCEPT !.l.i = 1])
    ELSE IF w.l.pc = "articleDelay" THEN [w EXCEPT !.l = At(@, "fetch", "article")]
    ELSE PageLoop([w EXCEPT !.l.i = @ + 1])

(***************************************************************************)
(* Inputs                                                                  *)
(***************************************************************************)

\* the most page links, article links, paragraphs and loose content nodes of
\* a document
MaxNavLinks == 2
MaxArticleLinks == 3
MaxParagraphs == 3
MaxContentNodes == 3

\* all sequences over S of length at most n
SeqUpTo(S, n) == UNION {[1..k -> S] : k \in 0..n}

Document(title, body) == [title |-> title, body |-> body]

\* ---- the entry page of an edition
EntryUrls ==
    { <<"h", "t", "t", "p", ":", "/", "/", "s", "/", "n", "o", "d", "e", "_", "1", ".", "h", "t", "m">>,
      <<"h", "t", "t", "p", ":", "/", "/", "s", "/", "n", "o", "d", "e", "_", "5", ".", "h", "t", "m">> }

NavHrefs ==
    { <<>>,
      <<"#">>,
      <<"n", "o", "d", "e", "_", "2", ".", "h", "t", "m">>,
      <<"n", "o", "d", "e", "_", "1", "0", ".", "h", "t", "m">>,
      <<".", "/", "n", "o", "d", "e", "_", "2", ".", "h", "t", "m">>,
      <<"h", "t", "t", "p", ":", "/", "/", "s", "/", "n", "o", "d", "e", "_", "2", ".", "h", "t", "m">>,
      <<"j", "a", "v", "a", "s", "c", "r", "i", "p", "t", ":", "g", "o", "(", "'", "n", "o", "d", "e", "_", "3", "'", ")">>,
      <<"J", "a", "v", "a", "S", "c", "r", "i", "p", "t", ":", "g", "o", "(", "'", "n", "o", "d", "e", "_", "3", "'", ")">>,
      <<"c", "o", "n", "t", "e", "n", "t", "_", "1", ".", "h", "t", "m">>,
      <<"n", "o", "d", "e", "_", "1", ".", "h", "t", "m">> }

NavDocs ==
    {Document(<<>>, [i \in DOMAIN hrefs |-> Anchor(hrefs[i], <<"P">>)]) :
        hrefs \in SeqUpTo(NavHrefs, MaxNavLinks)}

PageLinkSelectors ==
    { Selector("a[href^=\"node_\"]", <<<<Compound("a", "", "", NodeToken)>>>>),
      Selector("a", <<Tag("a")>>),
      InvalidSelector("a[") }

NavArgs == [doc : NavDocs, baseUrl : EntryUrls, selector : PageLinkSelectors]

\* ---- one page of an edition
PageUrl == <<"h", "t", "t", "p", ":", "/", "/", "s", "/", "n", "o", "d", "e", "_", "1", ".", "h", "t", "m">>
ContentToken == <<"c", "o", "n", "t", "e", "n", "t", "_">>
X99 == Repeat("x", HintCeiling - 1)
X100 == Repeat("x", HintCeiling)

LinkNodes ==
    { Anchor(<<"c", "o", "n", "t", "e", "n", "t", "_", "1", ".", "h", "t", "m">>, <<"A", "b">>),
      Anchor(<<"c", "o", "n", "t", "e", "n", "t", "_", "1", ".", "h", "t", "m">>, <<" ", "A", "b", "c", "d", " ">>),
      Anchor(<<"c", "o", "n", "t", "e", "n", "t", "_", "1", ".", "h", "t", "m">>, <<>>),
      Anchor(<<"c", "o", "n", "t", "e", "n", "t", "_", "1", ".", "h", "t", "m">>, X99),
      Anchor(<<"h", "t", "t", "p", ":", "/", "/", "s", "/", "c", "o", "n", "t", "e", "n", "t", "_", "1", ".", "h", "t", "m">>, X100),
      Area(<<"c", "o", "n", "t", "e", "n", "t", "_", "1", ".", "h", "t", "m">>, <<"A", "l", "t">>, <<"T", "i", "p", " ", "t", "e", "x", "t">>),
      Area(<<"c", "o", "n", "t", "e", "n", "t", "_", "2", ".", "h", "t", "m">>, <<>>, <<"T", "i", "p", " ", "t", "e", "x", "t">>),
      Anchor(<<"#">>, <<"T", "o", "p">>),
      Anchor(<<"#", "t", "o", "p">>, <<"T", "o", "p">>),
      Anchor(<<"j", "a", "v", "a", "s", "c", "r", "i", "p", "t", ":", "v", "o", "i", "d", "(", "0", ")">>, <<"J", "s">>),
      Anchor(<<"J", "a", "v", "a", "S", "c", "r", "i", "p", "t", ":", "v", "o", "i", "d", "(", "0", ")">>, <<"J", "s">>) }

LinkDocs == {Document(<<>>, body) : body \in SeqUpTo(LinkNodes, MaxArticleLinks)}

ArticleLinkSelectors ==
    { Selector("a[href^=\"content_\"], area[href^=\"content_\"]",
               << <<Compound("a", "", "", ContentToken)>>,
                  <<Compound("area", "", "", ContentToken)>> >>),
      Selector("a, area", <<Tag("a"), Tag("area")>>),
      InvalidSelector("a[href^=") }

LinkArgs == [doc : LinkDocs, baseUrl : {PageUrl}, selector : ArticleLinkSelectors]

\* ---- one article page
P(kids) == El("p", "", "", kids)
Br == El("br", "", "", <<>>)

X201 == Repeat("x", TitleLimit + 1)

IntroParts ==
    { <<>>,
      <<El("td", "font00", "", <<Txt(<<"I", "n", "t", "r", "o">>)>>)>> }

MainParts ==
    { <<>>,
      <<El("td", "font01", "", <<Txt(<<" ", "E", "x", "a", "m", " ", " ", "R", "e", "f", "o", "r", "m", " ">>)>>)>>,
      <<El("td", "font01", "", <<Txt(<<"A">>)>>)>>,
      <<El("h1", "", "", <<Txt(UntitledArticle)>>)>>,
      <<El("td", "font01", "", <<Txt(X201)>>)>>,
      <<El("td", "font01", "", <<Img(<<"A", "l", "t", " ", "t", "i", "t", "l", "e">>)>>)>>,
      <<El("div", "main_title", "", <<Txt(<<" ", "\n", " ">>), Img(<<>>)>>)>> }

SubParts ==
    { <<>>,
      <<El("td", "font02", "", <<Txt(<<"S", "u", "b">>)>>)>> }

GenericParts ==
    { <<>>,
      <<El("div", "title", "", <<Txt(<<" ", " ", "E", "x", "a", "m", " ", " ", " ", "R", "e", "f", "o", "r", "m", " ", " ">>)>>)>>,
      <<El("div", "title", "", <<Txt(<<"B">>)>>)>> }

DocTitles ==
    { <<>>,
      <<"E", "x", "a", "m", " ", "-", " ", "D", "a", "i", "l", "y">>,
      <<"A", "_", "B", "-", "C">>,
      <<"-", "x">>,
      <<"P", "l", "a", "i", "n">>,
      <<"A", "|", "B">> }

FixedContent ==
    <<El("div", "", "ozoom",
         <<P(<<Txt(<<"A", ".">>)>>), P(<<Txt(<<"B", ".">>)>>), P(<<Txt(<<"C", ".">>)>>)>>)>>

TitleDocs ==
    {Document(t, i \o m \o u \o g \o FixedContent) :
        t \in DocTitles, i \in IntroParts, m \in MainParts, u \in SubParts,
        g \in GenericParts}

Hints ==
    { <<>>,
      <<"H", "i", "n", "t">>,
      UntitledArticle,
      Repeat("h", TitleLimit),
      Repeat("h", TitleLimit + 50) }

FixedTitle == <<El("td", "font01", "", <<Txt(<<"E", "x", "a", "m", " ", "R", "e", "f", "o", "r", "m">>)>>)>>

ParagraphKids ==
    { P(<<Txt(<<"A", ".">>)>>),
      P(<<Txt(<<" ", "B", ".", "\n">>)>>),
      P(<<>>),
      P(<<Txt(<<"C">>), El("span", "", "", <<Txt(<<".">>)>>)>>),
      El("div", "", "", <<P(<<Txt(<<"D", ".">>)>>)>>),
      Txt(<<" ", "l", "o", "o", "s", "e", " ">>) }

LooseKids ==
    { Txt(<<"a">>),
      Txt(<<" ", "\n">>),
      Br,
      El("div", "", "", <<Txt(<<"b">>)>>),
      El("div", "", "", <<Br>>),
      El("span", "", "", <<Txt(<<"c">>)>>),
      El("tr", "", "", <<El("td", "", "", <<Txt(<<"d", " ">>)>>)>>) }

ContentDocs ==
    {Document(<<>>, FixedTitle \o <<El("div", "", "ozoom", kids)>>) :
        kids \in SeqUpTo(ParagraphKids, MaxParagraphs)
                 \cup SeqUpTo(LooseKids, MaxContentNodes)}
    \cup {Document(<<>>, FixedTitle)}

\* DEFAULT_CONFIG.titleSelector and DEFAULT_CONFIG.contentSelector
DefaultTitleSelector ==
    Selector("td.font01, .yinbiaoti, .zhubiaoti, .fubiaoti, #artibodyTitle, #title, .title",
             <<TagClass("td", "font01"), Class("yinbiaoti"), Class("zhubiaoti"),
               Class("fubiaoti"), Id("artibodyTitle"), Id("title"), Class("title")>>)
DefaultContentSelector ==
    Selector("#article_content, founder-content, .text, .article-content, .blkContainerSblkCon, #ozoom, td.font02",
             <<Id("article_content"), Tag("founder-content"), Class("text"),
               Class("article-content"), Class("blkContainerSblkCon"), Id("ozoom"),
               TagClass("td", "font02")>>)

SelectorPairs ==
    { [title |-> DefaultTitleSelector, content |-> DefaultContentSelector],
      [title |-> Selector(".title", <<Class("title")>>),
       content |-> Selector("#ozoom", <<Id("ozoom")>>)],
      [title |-> InvalidSelector("td..font01"),
       content |-> Selector("#ozoom", <<Id("ozoom")>>)],
      [title |-> Selector(".title", <<Class("title")>>),
       content |-> InvalidSelector("#")] }

ResolveArgs ==
    [doc : TitleDocs, selectors : SelectorPairs, fallbackTitle : Hints]
    \cup [doc : ContentDocs, selectors : SelectorPairs, fallbackTitle : {<<>>}]

\* the most calls with the same document, selectors and hint
MaxCalls == 2

\* ---- one response of the site
\* the most pieces a response body is put together from
MaxChunks == 3

\* pieces of a page: charset declarations as they occur in meta tags, and
\* characters in UTF-8 and in GBK
LoadChunks ==
    { CodeUnits(<<"c", "h", "a", "r", "s", "e", "t", "=", "g", "b", "2", "3", "1", "2", "\"">>),
      CodeUnits(<<"c", "h", "a", "r", "s", "e", "t", "=", "\"", "G", "B", "K", "\"">>),
      CodeUnits(<<"c", "h", "a", "r", "s", "e", "t", "=", "g", "b", "k", ">">>),
      CodeUnits(<<"c", "h", "a", "r", "s", "e", "t", "=", "u", "t", "f", "-", "8", "\"">>),
      CodeUnits(<<"a">>),
      <<214, 208>>,
      <<228, 184, 173>>,
      <<194, 169>>,
      <<239, 191, 189, 239, 191, 189>>,
      <<239, 187, 191>>,
      <<255>> }

Buffers == {Concat(chunks) : chunks \in SeqUpTo(LoadChunks, MaxChunks)}

Responses ==
    {[kind |-> "rejected"]}
    \cup {[kind |-> "resolved", ok |-> FALSE]}
    \cup {[kind |-> "resolved", ok |-> TRUE, buffer |-> b] : b \in Buffers}

LoadArgs == [response : Responses, gbkSupported : BOOLEAN]

\* fetchUrl is handed no document
NoDocument == <<>>

\* ---- the article list after a scrape
\* the most articles in the list, log entries and calls of optimizeArticle
\* that wait for the service
MaxArticles == 2
MaxLogs == 4
MaxOptimizing == 2

\* the shortest content the scrape puts into the list
MinContentLength == 20

ArticleIds == 1..MaxArticles

\* contents the scrape keeps: 20 characters or more
RawContents ==
    { Repeat("r", MinContentLength),
      <<"A", ".", "\n", "\n">> \o Repeat("b", MinContentLength) }

Digits == <<"1", "2", "3", "4", "5", "6", "7", "8", "9">>

\* the article the scrape adds for a resolved title and content
ScrapedArticle(id, content) ==
    [id |-> id,
     date |-> <<"2", "0", "2", "4", "-", "0", "1", "-", "0", "1">>,
     page |-> <<"0", "1">>,
     title |-> <<"A", "b">>,
     content |-> content,
     markdown |-> ScrapedMarkdown(<<"A", "b">>, <<"2", "0", "2", "4", "-", "0", "1", "-", "0", "1">>, <<"0", "1">>, content),
     url |-> <<"h", "t", "t", "p", ":", "/", "/", "s", "/", "c", "o", "n", "t", "e", "n", "t", "_">>
                 \o <<Digits[id]>> \o <<".", "h", "t", "m">>,
     status |-> "success"]

ScrapedLists ==
    UNION {{[i \in 1..n |-> ScrapedArticle(i, contents[i])] :
               contents \in [1..n -> RawContents]} : n \in 1..MaxArticles}

\* what the cleanup service does with a request: it fails (no key, no
\* network, an error response), or it answers, with or without text
GeminiOutcomes ==
    { [kind |-> "rejected"],
      [kind |-> "resolved", text |-> <<>>],
      [kind |-> "resolved", text |-> <<"#", " ", "A", "b", "\n", "\n", "C", "l", "e", "a", "n", ".">>] }

\* ---- the scrape
\* the most dates of a run, clicks on Start, and calendar days
MaxDates == 4
MaxRuns == 2
MaxDays == 2

\* a configuration: the dates are numbered days, an empty range has the start
\* after the end or a start that is no date (0); maxRetries, batchSize and
\* dailyArticleLimit are 0 where they are left out
Config(startDate, endDate, maxPages, maxRetries, enableRateLimiting, batchSize, dailyArticleLimit) ==
    [startDate |-> startDate, endDate |-> endDate, maxPages |-> maxPages,
     maxRetries |-> maxRetries, enableRateLimiting |-> enableRateLimiting,
     batchSize |-> batchSize, dailyArticleLimit |-> dailyArticleLimit]

\* what is explored: a configuration, how often the user clicks Start and how
\* many midnights pass

\* one run over up to MaxDates dates with batches of 3 (the default) or 2
\* dates, the first page of each edition
LongRuns ==
    {[config |-> Config(1, e, 1, 1, TRUE, b, 0), starts |-> 1, midnights |-> 0] :
        e \in 1..MaxDates, b \in {0, 2}}

\* one run without rate limiting over no, one or two dates and up to all
\* pages of an edition (maxPages is 1 or more: the input has min="1"), with
\* the default retries or one retry
WideRuns ==
    {[config |-> Config(r[1], r[2], mp, mr, FALSE, 0, 0), starts |-> 1, midnights |-> 0] :
        r \in {<<0, 1>>, <<1, 0>>, <<1, 1>>, <<1, 2>>}, mp \in 1..MaxSitePages, mr \in 0..1}

\* up to MaxRuns runs over one date, with and without a daily limit, on up
\* to MaxDays days
Reruns ==
    {[config |-> Config(1, 1, 1, 1, rl[1], 0, rl[2]), starts |-> MaxRuns,
      midnights |-> MaxDays - 1] :
        rl \in {<<FALSE, 0>>, <<TRUE, 0>>, <<TRUE, 1>>}}

Scenarios == LongRuns \cup WideRuns \cup Reruns

\* the configuration of the other calls: DEFAULT_CONFIG
DEFAULT_CONFIG ==
    Config(1, 1, 20, 3, FALSE, 0, 0)

\* how a fetchUrl settles, and what parseArticleContent finds in an article
FetchOutcomes == {"failed", "ok", "short"}

(***************************************************************************)
(* The calls                                                               *)
(***************************************************************************)

\* null for an article id; the ids of articles are 1, 2, ...
Null == 0

\* the App component as it is mounted
InitApp ==
    /\ articles = <<>>
    /\ selectedArticleId = Null
    /\ logs = <<>>
    /\ optimizing = <<>>

\* the App before any run
NoRun ==
    /\ status = "IDLE"
    /\ abortControllerRef = <<>>
    /\ rateLimiterRef = <<>>
    /\ loops = <<>>
    /\ today = 1
    /\ addedToday = 0

InitNav ==
    /\ fn = "extractPageNavLinks" /\ args \in NavArgs /\ ret = Pending
    /\ dom = args.doc /\ earlier = <<>> /\ InitApp
    /\ config = DEFAULT_CONFIG /\ NoRun
InitLinks ==
    /\ fn = "extractArticleLinks" /\ args \in LinkArgs /\ ret = Pending
    /\ dom = args.doc /\ earlier = <<>> /\ InitApp
    /\ config = DEFAULT_CONFIG /\ NoRun
InitResolve ==
    /\ fn = "parseArticleContent" /\ args \in ResolveArgs /\ ret = Pending
    /\ dom = args.doc /\ earlier = <<>> /\ InitApp
    /\ config = DEFAULT_CONFIG /\ NoRun

InitLoad ==
    /\ fn = "fetchUrl" /\ args \in LoadArgs /\ ret = Pending
    /\ dom = NoDocument /\ earlier = <<>> /\ InitApp
    /\ config = DEFAULT_CONFIG /\ NoRun

\* the App after a scrape has filled the article list
InitOptimize ==
    /\ fn = "optimizeArticle" /\ args = <<>> /\ ret = Pending
    /\ dom = NoDocument /\ earlier = <<>>
    /\ articles \in ScrapedLists
    /\ selectedArticleId = Null
    /\ logs = <<>>
    /\ optimizing = <<>>
    /\ config = DEFAULT_CONFIG /\ NoRun

\* the App before the first click on Start, with the configuration the user
\* has entered
InitScrape ==
    /\ fn = "startScraping" /\ ret = Pending
    /\ dom = NoDocument /\ earlier = <<>> /\ InitApp
    /\ \E scenario \in Scenarios :
          /\ config = scenario.config
          /\ args = [starts |-> scenario.starts, midnights |-> scenario.midnights]
    /\ NoRun

Init == InitNav \/ InitLinks \/ InitResolve \/ InitLoad \/ InitOptimize \/ InitScrape

CallFetchUrl ==
    /\ fn = "fetchUrl"
    /\ ret = Pending
    /\ ret' = fetchUrl(args.response, args.gbkSupported)
    /\ UNCHANGED <<fn, args, dom, earlier, appVars, scrapeVars>>

CallExtractPageNavLinks ==
    /\ fn = "extractPageNavLinks"
    /\ ret = Pending
    /\ ret' = extractPageNavLinks(dom, args.baseUrl, args.selector)
    /\ UNCHANGED <<fn, args, dom, earlier, appVars, scrapeVars>>

CallExtractArticleLinks ==
    /\ fn = "extractArticleLinks"
    /\ ret = Pending
    /\ ret' = extractArticleLinks(dom, args.baseUrl, args.selector)
    /\ UNCHANGED <<fn, args, dom, earlier, appVars, scrapeVars>>

\* a call of parseArticleContent on the document as it is now, the first one
\* or one more with the same selectors and hint
CallParseArticleContent ==
    /\ fn = "parseArticleContent"
    /\ ret = Pending \/ Len(earlier) + 1 < MaxCalls
    /\ ret' = parseArticleContent(dom, args.selectors, args.fallbackTitle)
    /\ dom' = DocumentAfterResolve(dom, args.selectors)
    /\ earlier' = IF ret = Pending THEN earlier ELSE Append(earlier, ret)
    /\ UNCHANGED <<fn, args, appVars, scrapeVars>>

\* optimizeArticle up to its await: the article is looked up in the list and
\* the cleanup service is called with its content and title
OptimizeArticle(id) ==
    /\ fn = "optimizeArticle"
    /\ Len(logs) + 2 <= MaxLogs
    /\ Len(optimizing) < MaxOptimizing
    /\ LET article == FindArticle(articles, id)
       IN IF article = <<>> THEN UNCHANGED <<logs, optimizing>>
          ELSE /\ logs' = addLog(logs, "Optimizing", "info")
               /\ optimizing' = Append(optimizing, article[1])
    /\ UNCHANGED <<fn, args, ret, dom, earlier, articles, selectedArticleId, scrapeVars>>

\* optimizeArticle from its await on: cleanContentWithGemini has settled, for
\* the service outcome `service`; args and ret record that call
OptimizeArticleResume(k, service) ==
    /\ fn = "optimizeArticle"
    /\ k \in DOMAIN optimizing
    /\ LET article == optimizing[k]
           cleanMd == cleanContentWithGemini(article.content, article.title, service)
       IN /\ args' = [id |-> article.id, rawText |-> article.content,
                      title |-> article.title, service |-> service]
          /\ ret' = cleanMd
          /\ IF cleanMd.status = "returned"
             THEN /\ articles' = SetMarkdown(articles, article.id,
                                             RefinedMarkdown(article, cleanMd.value))
                  /\ logs' = addLog(logs, "Optimization complete", "success")
             ELSE /\ articles' = articles
                  /\ logs' = addLog(logs, "Optimization failed", "error")
    /\ optimizing' = RemoveAt(optimizing, k)
    /\ UNCHANGED <<fn, dom, earlier, selectedArticleId, scrapeVars>>

\* deleteArticle
DeleteArticle(id) ==
    /\ fn = "optimizeArticle"
    /\ articles' = WithoutArticle(articles, id)
    /\ selectedArticleId' = IF selectedArticleId = id THEN Null ELSE selectedArticleId
    /\ UNCHANGED <<fn, args, ret, dom, earlier, logs, optimizing, scrapeVars>>

\* onSelect of the article list: setSelectedArticleId
SelectArticle(id) ==
    /\ fn = "optimizeArticle"
    /\ \E i \in DOMAIN articles : articles[i].id = id
    /\ selectedArticleId' = id
    /\ UNCHANGED <<fn, args, ret, dom, earlier, articles, logs, optimizing, scrapeVars>>

\* ---- the scrape
\* the state a stretch of the call k works on
World(k) ==
    [l |-> loops[k], rl |-> rateLimiterRef, ac |-> abortControllerRef,
     status |-> status, logs |-> logs]

\* the state that stretch leaves
Leaves(k, w) ==
    /\ loops' = [loops EXCEPT ![k] = w.l]
    /\ rateLimiterRef' = w.rl
    /\ status' = w.status
    /\ logs' = w.logs

\* a click on Start: startScraping up to its first await. The button is there
\* unless the status is RUNNING.
StartScraping ==
    /\ fn = "startScraping"
    /\ status # "RUNNING"
    /\ Len(loops) < args.starts
    /\ LET limiter == IF config.enableRateLimiting
                      THEN <<RateLimiter(Or(config.batchSize, 3),
                                         Or(config.dailyArticleLimit, 0), today)>>
                      ELSE <<>>
           controller == <<[aborted |-> FALSE]>>
           l == [LoopDone EXCEPT !.pc = "start", !.d = 1,
                                 !.seen = {articles[n].url : n \in DOMAIN articles}]
           started == [l |-> l, rl |-> limiter, ac |-> controller, status |-> "RUNNING",
                       logs |-> IF config.enableRateLimiting
                                THEN addLog(<<>>, "Rate limiting enabled", "info")
                                ELSE <<>>]
           w == IF Len(Dates) = 0
                THEN [started EXCEPT !.l = LoopDone, !.status = "IDLE",
                                     !.logs = addLog(@, "Invalid date range selected.", "error")]
                ELSE DateLoop(started)
       IN /\ loops' = Append(loops, w.l)
          /\ rateLimiterRef' = w.rl
          /\ status' = w.status
          /\ logs' = w.logs
          /\ abortControllerRef' = controller
          /\ articles' = <<>>
    /\ UNCHANGED <<fn, args, ret, dom, earlier, selectedArticleId, optimizing,
                   config, today, addedToday>>

\* a click on Stop: stopScraping. The button is there while the status is
\* RUNNING.
StopScraping ==
    /\ fn = "startScraping"
    /\ status = "RUNNING"
    /\ abortControllerRef' = IF abortControllerRef # <<>> THEN <<[aborted |-> TRUE]>>
                             ELSE abortControllerRef
    /\ status' = "PAUSED"
    /\ logs' = addLog(logs, "Scraping stopped by user.", "warning")
    /\ loops' = [loops EXCEPT ![Len(loops)].stopped = (loops[Len(loops)].pc # "done")]
    /\ UNCHANGED <<fn, args, ret, dom, earlier, articles, selectedArticleId, optimizing,
                   config, rateLimiterRef, today, addedToday>>

\* the fetchUrl the call k awaits settles: fetchWithRetry retries, throws or
\* returns the document, and the call goes on to its next await. An article
\* page has content that is long enough ("ok") or not ("short"); the site
\* has no more than MaxArticles articles worth keeping.
FetchSettles(k, response) ==
    /\ fn = "startScraping"
    /\ k \in DOMAIN loops
    /\ loops[k].pc = "fetch"
    /\ response = "short" => loops[k].what = "article"
    /\ response = "ok" /\ loops[k].what = "article" => Len(articles) < MaxArticles
    /\ LET w == World(k)
           got == fetchWithRetry(config, w.l.retries, response)
           marked == IF w.rl = <<>> THEN w.rl ELSE <<markArticleProcessed(w.rl[1])>>
       IN IF got.status = "retry"
          THEN /\ Leaves(k, [w EXCEPT !.l.pc = "retryDelay", !.l.retries = got.retries])
               /\ UNCHANGED <<articles, addedToday>>
          ELSE IF got.status = "threw"
          THEN /\ Leaves(k, Caught(w))
               /\ UNCHANGED <<articles, addedToday>>
          ELSE IF w.l.what # "article"
          THEN /\ Leaves(k, Fetched(w))
               /\ UNCHANGED <<articles, addedToday>>
          ELSE IF response = "short"
          THEN /\ Leaves(k, ArticleLoop([w EXCEPT !.l.j = @ + 1]))
               /\ UNCHANGED <<articles, addedToday>>
          ELSE /\ articles' = Append(articles, NewArticle(w.l))
               /\ addedToday' = addedToday + 1
               /\ Leaves(k, ArticleLoop([w EXCEPT !.rl = marked, !.l.j = @ + 1]))
    /\ UNCHANGED <<fn, args, ret, dom, earlier, selectedArticleId, optimizing,
                   config, abortControllerRef, today>>

\* the delay the call k awaits is over
DelayElapses(k) ==
    /\ fn = "startScraping"
    /\ k \in DOMAIN loops
    /\ loops[k].pc \in {"cooldown", "retryDelay", "entryDelay", "emptyDelay",
                        "articleDelay", "pageDelay"}
    /\ Leaves(k, Resumed(World(k)))
    /\ UNCHANGED <<fn, args, ret, dom, earlier, articles, selectedArticleId, optimizing,
                   config, abortControllerRef, today, addedToday>>

\* midnight
DayPasses ==
    /\ fn = "startScraping"
    /\ today <= args.midnights
    /\ today' = today + 1
    /\ addedToday' = 0
    /\ UNCHANGED <<fn, args, ret, dom, earlier, appVars,
                   status, config, abortControllerRef, rateLimiterRef, loops>>

NextScrape ==
    \/ StartScraping
    \/ StopScraping
    \/ \E k \in 1..MaxRuns, response \in FetchOutcomes : FetchSettles(k, response)
    \/ \E k \in 1..MaxRuns : DelayElapses(k)
    \/ DayPasses

NextOptimize ==
    \/ \E id \in ArticleIds : OptimizeArticle(id)
    \/ \E k \in 1..MaxOptimizing, service \in GeminiOutcomes : OptimizeArticleResume(k, service)
    \/ \E id \in ArticleIds : DeleteArticle(id)
    \/ \E id \in ArticleIds : SelectArticle(id)

Next ==
    \/ CallExtractPageNavLinks
    \/ CallExtractArticleLinks
    \/ CallParseArticleContent
    \/ CallFetchUrl
    \/ NextOptimize
    \/ NextScrape

Spec == Init /\ [][Next]_vars
SpecNav == InitNav /\ [][CallExtractPageNavLinks]_vars
SpecLinks == InitLinks /\ [][CallExtractArticleLinks]_vars
SpecResolve == InitResolve /\ [][CallParseArticleContent]_vars
SpecLoad == InitLoad /\ [][CallFetchUrl]_vars
SpecOptimize == InitOptimize /\ [][NextOptimize]_vars
SpecScrape == InitScrape /\ [][NextScrape]_vars

\* the scrape where every fetchUrl a call awaits settles, with a document or
\* an error, and every delay a call awaits elapses
SpecScrapeFair ==
    /\ InitScrape
    /\ [][NextScrape]_vars
    /\ \A k \in 1..MaxRuns :
          /\ WF_vars(\E response \in FetchOutcomes : FetchSettles(k, response))
          /\ WF_vars(DelayElapses(k))

(***************************************************************************)
(* Properties                                                              *)
(***************************************************************************)

ResolveReturned == fn = "parseArticleContent" /\ ret.status = "returned"
NavReturned == fn = "extractPageNavLinks" /\ ret.status = "returned"
LinksReturned == fn = "extractArticleLinks" /\ ret.status = "returned"

\* the part of s before the first c, or s when c does not occur
Before(s, c) ==
    LET at == {i \in 1..Len(s) : s[i] = c}
    IN IF at = {} THEN s ELSE SubSeq(s, 1, Min(at) - 1)

\* the page title cut at "-" if it has one, else at "_", else at "|"
CutBySeparatorOrder(t) ==
    IF "-" \in Range(t) THEN Before(t, "-")
    ELSE IF "_" \in Range(t) THEN Before(t, "_")
    ELSE Before(t, "|")

\* the page title cut at the earliest position holding any separator
CutAtEarliest(t) ==
    LET at == {i \in 1..Len(t) : t[i] \in {"-", "_", "|"}}
    IN IF at = {} THEN t ELSE SubSeq(t, 1, Min(at) - 1)

\* a title as the truncation step has to return it
Shortened(t) == IF Len(t) > 200 THEN SubSeq(t, 1, 200) \o <<".", ".", ".">> ELSE t

\* the title after the structured triple, the generic selector and the image alt
EarlyTitle == ImageAltTitle(args.doc, HeadlineTitle(args.doc, args.selectors))

\* every tier of the cascade yields empty text
AllTiersEmpty ==
    /\ mainTitle(args.doc) = <<>>
    /\ GenericTitle(args.doc, args.selectors.title) = <<>>
    /\ LET img == querySelector(args.doc, TitleImgSelector)
       IN img = <<>> \/ img[1].node.alt = <<>>
    /\ args.fallbackTitle = <<>>
    /\ Trim(CutBySeparatorOrder(args.doc.title)) = <<>>

\* C1: the title parseArticleContent returns is never empty, and it is
\* "Untitled Article" whenever the structured headline, the generic selector,
\* the image alt, the link hint and the page title all yield empty text.
C1_TitleNeverEmpty ==
    ResolveReturned =>
        /\ ret.value.title # <<>>
        /\ AllTiersEmpty => ret.value.title = UntitledArticle

\* a page whose <title> is cut down to nothing and that offers no other title
C1_Witness ==
    /\ ResolveReturned
    /\ AllTiersEmpty
    /\ args.doc.title # <<>>
    /\ ret.value.title = UntitledArticle

\* the matched links of the entry page
NavLinks == querySelectorAll(args.doc.body, <<>>, args.selector)

\* C2: the sequence extractPageNavLinks returns contains the entry URL and no
\* URL twice; when the query matches nothing it is exactly <<entryUrl>>.
C2_EntryUrlAndNoDuplicates ==
    NavReturned =>
        /\ args.baseUrl \in Range(ret.value)
        /\ NoDuplicates(ret.value)
        /\ NavLinks = <<>> => ret.value = <<args.baseUrl>>

\* two matched links with different references resolve to one URL
C2_Witness ==
    /\ NavReturned
    /\ \E i, j \in DOMAIN NavLinks :
          /\ i < j
          /\ IsPageHref(NavLinks[i].node.href)
          /\ NavLinks[i].node.href # NavLinks[j].node.href
          /\ ResolveUrl(Directory(args.baseUrl), NavLinks[i].node.href)
                = ResolveUrl(Directory(args.baseUrl), NavLinks[j].node.href)
          /\ Len(ret.value) = 2

\* the matched links of the page, and those the loop accepts
ArticleLinks == querySelectorAll(args.doc.body, <<>>, args.selector)
AcceptedLinks ==
    LET Accepted(e) == IsArticleHref(e.node.href) IN SelectSeq(ArticleLinks, Accepted)
UrlOf(e) == ResolveUrl(Directory(args.baseUrl), e.node.href)

\* C3: extractArticleLinks never returns two entries with the same URL.
C3_NoTwoEntriesWithOneUrl ==
    LinksReturned =>
        \A i, j \in DOMAIN ret.value : i # j => ret.value[i].url # ret.value[j].url

\* three accepted links with different texts resolve to one URL
C3_Witness ==
    /\ LinksReturned
    /\ Len(AcceptedLinks) = 3
    /\ \A i \in 1..3 : UrlOf(AcceptedLinks[i]) = UrlOf(AcceptedLinks[1])
    /\ AcceptedLinks[1].node.href # AcceptedLinks[2].node.href
    /\ Len(ret.value) = 1

\* C4: extractPageNavLinks, extractArticleLinks and parseArticleContent never
\* raise, whatever the selector strings are, a selector that does not parse
\* included.
C4_NeverRaises ==
    fn \in {"extractPageNavLinks", "extractArticleLinks", "parseArticleContent"} =>
        ret.status # "threw"

\* the hints the accepted links offer for a URL
Candidates(url) ==
    {LinkText(AcceptedLinks[i].node) :
        i \in {j \in DOMAIN AcceptedLinks : UrlOf(AcceptedLinks[j]) = url}}

\* C5: the hint emitted for a URL is the longest non-empty candidate of fewer
\* than 100 characters, in whatever order the candidates occur, and a candidate
\* of 100 or more characters is never emitted when a shorter non-empty one
\* exists.
C5_LongestShortHintWins ==
    LinksReturned =>
        \A k \in DOMAIN ret.value :
            LET e == ret.value[k]
                short == {c \in Candidates(e.url) : c # <<>> /\ Len(c) < 100}
            IN /\ short # {} => e.title \in short /\ \A c \in short : Len(c) <= Len(e.title)
               /\ Len(e.title) >= 100 =>
                     ~\E c \in Candidates(e.url) : c # <<>> /\ Len(c) < Len(e.title)

\* the intro line, main headline and sub-headline, the non-empty ones, with
\* single blanks between them
Pieces ==
    LET i == introTitle(args.doc)
        u == subTitle(args.doc)
    IN (IF i = <<>> THEN <<>> ELSE i \o <<" ">>)
           \o mainTitle(args.doc)
           \o (IF u = <<>> THEN <<>> ELSE <<" ">> \o u)

\* the collapsed text of the first node the caller's title selector matches
GenericText ==
    LET found == querySelector(args.doc, args.selectors.title)
    IN IF found = <<>> THEN <<>> ELSE collapseWhitespace(textContent(found[1].node))

\* no white space but single blanks between other characters
Tidy(t) ==
    /\ \A i \in DOMAIN t : IsSpace(t[i]) => t[i] = " " /\ i > 1 /\ i < Len(t)
    /\ \A i \in 1..(Len(t) - 1) : ~(t[i] = " " /\ t[i + 1] = " ")

\* a title of the first tiers that the later steps leave as it is: the link
\* hint does not replace it, it is not the placeholder, it is not truncated
Kept(t) ==
    /\ ~(Len(t) < 2 /\ args.fallbackTitle # <<>>)
    /\ t # UntitledArticle
    /\ Len(t) <= 200

ResolveCalled == fn = "parseArticleContent" /\ ret # Pending

\* C6, as claimed: with a non-empty main headline the title is the non-empty
\* pieces joined by single blanks, and the title selector is not consulted;
\* without one the title is the collapsed text the title selector matches.
C6_Original ==
    ResolveCalled =>
        /\ mainTitle(args.doc) # <<>> /\ args.selectors.content.valid =>
              ret.status = "returned" /\ ret.value.title = Pieces
        /\ ResolveReturned /\ mainTitle(args.doc) = <<>> /\ GenericText # <<>> =>
              ret.value.title = GenericText

\* C6, amended: with a non-empty main headline the title selector is not
\* consulted (a selector that does not parse raises nothing), and the title is
\* the non-empty pieces joined by single blanks unless the join is shorter than
\* 2 characters and a hint was supplied, is "Untitled Article", or is longer
\* than 200 characters; without a main headline the same holds of the
\* collapsed and trimmed text the title selector matches.
C6_StructuredTitleWins ==
    ResolveCalled =>
        /\ mainTitle(args.doc) # <<>> /\ args.selectors.content.valid =>
              ret.status = "returned"
        /\ ResolveReturned /\ mainTitle(args.doc) # <<>> /\ Kept(Pieces) =>
              ret.value.title = Pieces
        /\ ResolveReturned /\ mainTitle(args.doc) = <<>> /\ GenericText # <<>>
              /\ Kept(GenericText) =>
              ret.value.title = GenericText /\ Tidy(ret.value.title)

\* intro line, main headline and sub-headline are all there, the title
\* selector does not parse, and a hint and a page title are on offer
C6_Witness ==
    /\ ResolveReturned
    /\ ~args.selectors.title.valid
    /\ introTitle(args.doc) # <<>> /\ mainTitle(args.doc) # <<>> /\ subTitle(args.doc) # <<>>
    /\ args.fallbackTitle # <<>> /\ args.doc.title # <<>>
    /\ ret.value.title = Pieces

\* the page title cut at its separator and trimmed
PageCut == Trim(CutBySeparatorOrder(args.doc.title))

\* C7, as claimed: the hint becomes the title exactly when it is non-empty and
\* the title of the first three tiers has fewer than 2 characters.
C7_Original ==
    ResolveReturned =>
        /\ args.fallbackTitle # <<>> /\ Len(EarlyTitle) < 2 =>
              ret.value.title = args.fallbackTitle
        /\ Len(EarlyTitle) >= 2 /\ EarlyTitle # args.fallbackTitle =>
              ret.value.title # args.fallbackTitle

\* C7, amended: a non-empty hint replaces a title of the first three tiers
\* that has fewer than 2 characters, and is returned (cut to 200 characters and
\* "..." when longer) whatever the page title is, unless the hint is "Untitled
\* Article", which yields to a non-empty page title; a title of 2 or more
\* characters is never replaced by the hint.
C7_HintReplacesShortTitle ==
    ResolveReturned =>
        /\ args.fallbackTitle # <<>> /\ Len(EarlyTitle) < 2
              /\ args.fallbackTitle # UntitledArticle =>
              ret.value.title = Shortened(args.fallbackTitle)
        /\ args.fallbackTitle = UntitledArticle /\ Len(EarlyTitle) < 2 =>
              ret.value.title = (IF PageCut # <<>> THEN Shortened(PageCut)
                                 ELSE UntitledArticle)
        /\ Len(EarlyTitle) >= 2 /\ EarlyTitle # UntitledArticle =>
              ret.value.title = Shortened(EarlyTitle)

\* a one-character headline, a hint and a page title: the hint wins
C7_Witness ==
    /\ ResolveReturned
    /\ Len(EarlyTitle) = 1
    /\ args.fallbackTitle # <<>> /\ args.fallbackTitle # UntitledArticle
    /\ Len(args.fallbackTitle) <= 200
    /\ args.doc.title # <<>>
    /\ ret.value.title = args.fallbackTitle

\* the page-title fallback is reached and the page has a title
PageTitleReached ==
    LET t == LinkHintTitle(EarlyTitle, args.fallbackTitle)
    IN (t = <<>> \/ t = UntitledArticle) /\ args.doc.title # <<>>

\* C8, as claimed: the title is the page title up to the earliest position
\* that holds any of "-", "_", "|", trimmed.
C8_Original ==
    ResolveReturned /\ PageTitleReached /\ Trim(CutAtEarliest(args.doc.title)) # <<>> =>
        ret.value.title = Trim(CutAtEarliest(args.doc.title))

\* C8, amended: the title is the page title up to the first "-" if it has
\* one, else up to the first "_", else up to the first "|", trimmed (cut to 200
\* characters and "..." when longer, "Untitled Article" when empty); a page
\* title without separator is used whole.
C8_PageTitleCutBySeparatorOrder ==
    ResolveReturned /\ PageTitleReached =>
        ret.value.title = (IF PageCut # <<>> THEN Shortened(PageCut) ELSE UntitledArticle)

\* a page title with "_" before "-" is cut at the "-"
C8_Witness ==
    /\ ResolveReturned
    /\ PageTitleReached
    /\ args.doc.title = <<"A", "_", "B", "-", "C">>
    /\ ret.value.title = <<"A", "_", "B">>

\* C9: a resolved title of more than 200 characters is returned as its first
\* 200 characters and "...", a shorter one unchanged; no returned title has
\* more than 203 characters.
C9_TitleTruncatedAt200 ==
    ResolveReturned =>
        LET resolved == ResolveTitle(args.doc, args.selectors, args.fallbackTitle)
        IN /\ Len(resolved) > 200 =>
                 ret.value.title = SubSeq(resolved, 1, 200) \o <<".", ".", ".">>
           /\ Len(resolved) <= 200 => ret.value.title = resolved
           /\ Len(ret.value.title) <= 203

\* a resolved title of 250 characters
C9_Witness ==
    /\ ResolveReturned
    /\ Len(ResolveTitle(args.doc, args.selectors, args.fallbackTitle)) = 250
    /\ Len(ret.value.title) = 203

\* the paragraphs below the content root, if there is a root
ContentParagraphs ==
    LET root == querySelector(args.doc, args.selectors.content)
    IN IF root = <<>> THEN <<>>
       ELSE querySelectorAll(root[1].node.kids, <<>>, ParagraphSelector)

\* C10: when the content root contains paragraphs, the content is their
\* trimmed texts in document order with "\n\n" between them.
C10_ParagraphsJoinedByBlankLine ==
    ResolveReturned /\ Len(ContentParagraphs) >= 1 =>
        ret.value.content =
            Concat([i \in DOMAIN ContentParagraphs |->
                       (IF i = 1 THEN <<>> ELSE <<"\n", "\n">>)
                           \o Trim(textContent(ContentParagraphs[i].node))])

\* three paragraphs "A.", "B.", "C."
C10_Witness ==
    /\ ResolveReturned
    /\ Len(ContentParagraphs) = 3
    /\ ret.value.content = <<"A", ".", "\n", "\n", "B", ".", "\n", "\n", "C", ".">>

\* the content root, as a sequence of no or one element
ContentRoot == querySelector(args.doc, args.selectors.content)

\* the text of the rewritten copy of the content root, before it is tidied
RawContainerText == TextOfAll(RewriteBreaks(ContentRoot[1].node.kids))

\* every newline that is followed, over white space only, by another newline
\* is followed by it at once, and by no third one
BlankRunsAreTwoNewlines(t) ==
    /\ \A p, q \in DOMAIN t :
          (p < q /\ t[p] = "\n" /\ t[q] = "\n" /\ \A k \in (p + 1)..(q - 1) : IsSpace(t[k]))
              => q = p + 1
    /\ ~Includes(t, <<"\n", "\n", "\n">>)

\* C11: when the content root has no paragraphs, the content has no leading
\* or trailing white space and no run of three or more newlines: newlines
\* that follow each other over white space are collapsed to exactly two; when
\* no content root is found, the content is the empty string.
C11_FallbackContentTidy ==
    ResolveReturned =>
        /\ ContentRoot # <<>> /\ Len(ContentParagraphs) = 0 =>
              /\ ret.value.content = Trim(ret.value.content)
              /\ BlankRunsAreTwoNewlines(ret.value.content)
        /\ ContentRoot = <<>> => ret.value.content = <<>>

\* a content root without paragraphs whose text has three newlines in a row
\* between two words
C11_Witness ==
    /\ ResolveReturned
    /\ ContentRoot # <<>> /\ Len(ContentParagraphs) = 0
    /\ Includes(Trim(RawContainerText), <<"\n", "\n", "\n">>)
    /\ Includes(ret.value.content, <<"\n", "\n">>)

LoadReturned == fn = "fetchUrl" /\ ret.status = "returned"

\* the default decode and the legacy decode of the response body
DefaultText == Utf8Decode(args.response.buffer)
LegacyText == GbkDecode(args.response.buffer)

\* the text has charset= followed by gb2312 or gbk in any letter case, with
\* or without a quote before the name, whatever follows the name
DeclaresLegacyCharset(text) ==
    \E i \in DOMAIN text :
        /\ MatchesAt(text, i, CharsetEquals)
        /\ \E open \in {0, 1}, name \in LegacyNames :
              /\ open = 1 => (i + 8 <= Len(text) /\ text[i + 8] \in Quotes)
              /\ MatchesAt(text, i + 8 + open, name)

\* C12, as claimed: for a buffer whose default decode declares gb2312 or gbk,
\* the text fetchUrl parses contains U+FFFD only if the legacy decode of the
\* buffer contains it.
C12_Original ==
    LoadReturned /\ DeclaresLegacyCharset(DefaultText) =>
        (65533 \in Range(ret.value.text) => 65533 \in Range(LegacyText))

\* C12, amended: the same, where the runtime can build the legacy decoder;
\* where it cannot, the default decode is parsed as it is.
C12_NoReplacementCharUnlessLegacyHasIt ==
    LoadReturned /\ DeclaresLegacyCharset(DefaultText) =>
        /\ args.gbkSupported =>
              (65533 \in Range(ret.value.text) => 65533 \in Range(LegacyText))
        /\ ~args.gbkSupported => ret.value.text = DefaultText

\* a page in GBK that declares it: the default decode has U+FFFD, the parsed
\* text has none
C12_Witness ==
    /\ LoadReturned
    /\ args.gbkSupported
    /\ DeclaresLegacyCharset(DefaultText)
    /\ 65533 \in Range(DefaultText)
    /\ 65533 \notin Range(ret.value.text)
    /\ 20013 \in Range(ret.value.text)

\* C13: fetchUrl parses the legacy decode of the buffer exactly when the
\* default decode declares gb2312 or gbk (any letter case, quoted or not) or
\* contains U+FFFD, and the legacy decoder is available and its text is not
\* empty; in every other case it parses the default decode; it does not fail
\* once the response is there.
C13_LegacyDecodeWhenDeclaredOrBroken ==
    (fn = "fetchUrl" /\ ret # Pending /\ args.response.kind = "resolved" /\ args.response.ok) =>
        /\ ret.status = "returned"
        /\ ret.value.text =
              (IF /\ DeclaresLegacyCharset(DefaultText) \/ 65533 \in Range(DefaultText)
                  /\ args.gbkSupported
                  /\ Len(LegacyText) > 0
               THEN LegacyText
               ELSE DefaultText)

\* a comes before b in the dictionary order of the code units: at the first
\* position where they differ a has the smaller one, or a is a proper prefix
LexBefore(a, b) ==
    LET same == {k \in 0..Len(a) : k <= Len(b) /\ \A m \in 1..k : a[m] = b[m]}
        k == Max(same)
    IN IF k = Len(a) THEN k < Len(b)
       ELSE k < Len(b) /\ Code(a[k + 1]) < Code(b[k + 1])

\* C14: the sequence extractPageNavLinks returns is in ascending
\* lexicographic order of the resolved URL strings, wherever the entry URL
\* falls in that order.
C14_AscendingLexicographicOrder ==
    NavReturned =>
        \A i, j \in DOMAIN ret.value : i < j => LexBefore(ret.value[i], ret.value[j])

\* three pages found in an order that is not the sorted one, the entry URL
\* in the middle of the result, "node_10" before "node_2"
C14_Witness ==
    /\ NavReturned
    /\ Len(ret.value) = 3
    /\ ret.value[2] = args.baseUrl
    /\ Len(NavLinks) = 2
    /\ LexBefore(UrlOf(NavLinks[2]), UrlOf(NavLinks[1]))
    /\ ret.value[3] = UrlOf(NavLinks[1])

\* the ASCII letters of the alphabet that have a lower-case form
UpperLetters == <<"A", "B", "C", "D", "E", "H", "I", "J", "L", "M", "P", "R", "S", "T", "U">>
LowerLetters == <<"a", "b", "c", "d", "e", "h", "i", "j", "l", "m", "p", "r", "s", "t", "u">>

LowerCase(s) ==
    [i \in DOMAIN s |->
        IF \E k \in DOMAIN UpperLetters : UpperLetters[k] = s[i]
        THEN LowerLetters[CHOOSE k \in DOMAIN UpperLetters : UpperLetters[k] = s[i]]
        ELSE s[i]]

\* the reference uses the script pseudo-protocol, in whatever letter case
IsScriptReference(href) ==
    StartsWith(LowerCase(href), <<"j", "a", "v", "a", "s", "c", "r", "i", "p", "t", ":">>)

\* C15: every member of the result of extractPageNavLinks other than the
\* entry URL comes from a matched node whose reference is not empty, is not a
\* bare fragment, does not use the script pseudo-protocol in any letter case
\* and contains "node_"; a relative reference is resolved as the entry URL up
\* to and including its last "/" followed by the reference.
C15_MembersComeFromPageReferences ==
    NavReturned =>
        \A u \in Range(ret.value) \ {args.baseUrl} :
            \E i \in DOMAIN NavLinks :
                LET href == NavLinks[i].node.href
                IN /\ href # <<>>
                   /\ href # <<"#">>
                   /\ ~IsScriptReference(href)
                   /\ Includes(href, <<"n", "o", "d", "e", "_">>)
                   /\ u = (IF StartsWith(href, <<"h", "t", "t", "p">>) THEN href
                           ELSE SubSeq(args.baseUrl, 1, LastIndexOf(args.baseUrl, <<"/">>))
                                    \o href)

\* the URL without its "." path segments: every "./" that follows a "/" is
\* removed
NormalizedUrl(u) ==
    Concat([i \in DOMAIN u |->
               IF i > 1 /\ i < Len(u) /\ u[i - 1] = "/" /\ u[i] = "." /\ u[i + 1] = "/"
               THEN <<>>
               ELSE IF i > 2 /\ u[i - 2] = "/" /\ u[i - 1] = "." /\ u[i] = "/"
               THEN <<>>
               ELSE <<u[i]>>])

\* C16: no two members of the result of extractPageNavLinks denote the same
\* page after URL normalization: the references "node_2.htm" and
\* "./node_2.htm", or a relative and an absolute reference to one page, never
\* give two members.
C16_UniqueByNormalizedUrl ==
    NavReturned =>
        \A i, j \in DOMAIN ret.value :
            i # j => NormalizedUrl(ret.value[i]) # NormalizedUrl(ret.value[j])

\* the URLs of the entries extractArticleLinks returned
EntryUrlsOf(entries) == {entries[k].url : k \in DOMAIN entries}

\* the reference is one the extractor has to skip: empty, a fragment
\* reference, or the script pseudo-protocol in any letter case
IsSkippedReference(href) ==
    href = <<>> \/ StartsWith(href, <<"#">>) \/ IsScriptReference(href)

\* C17: extractArticleLinks emits no entry for a matched node whose reference
\* is empty, begins with "#" or uses the script pseudo-protocol in any letter
\* case, and the resolved URL of every other matched node is in the output.
C17_SkipsEmptyFragmentAndScript ==
    LinksReturned =>
        \A i \in DOMAIN ArticleLinks :
            IF IsSkippedReference(ArticleLinks[i].node.href)
            THEN UrlOf(ArticleLinks[i]) \notin EntryUrlsOf(ret.value)
            ELSE UrlOf(ArticleLinks[i]) \in EntryUrlsOf(ret.value)

\* the URLs of the accepted links, each at its first occurrence in the
\* document
RECURSIVE FirstOccurrences(_)
FirstOccurrences(urls) ==
    IF urls = <<>> THEN <<>>
    ELSE LET front == FirstOccurrences(SubSeq(urls, 1, Len(urls) - 1))
             last == urls[Len(urls)]
         IN IF \E k \in DOMAIN front : front[k] = last THEN front ELSE Append(front, last)

\* C18: extractArticleLinks emits exactly one entry for each distinct resolved
\* URL of the accepted matched nodes, URLs whose every candidate hint is empty
\* included, in the order in which the URLs first occur in the document; a
\* later, better hint changes the titleHint of its URL, not its position.
C18_OneEntryPerUrlInDiscoveryOrder ==
    LinksReturned =>
        [k \in DOMAIN ret.value |-> ret.value[k].url]
            = FirstOccurrences([i \in DOMAIN AcceptedLinks |-> UrlOf(AcceptedLinks[i])])

\* a URL first met without hint, then a second URL, then the first URL
\* again with a hint: the first URL stays first and carries the later hint
C18_Witness ==
    /\ LinksReturned
    /\ Len(AcceptedLinks) = 3
    /\ LinkText(AcceptedLinks[1].node) = <<>>
    /\ UrlOf(AcceptedLinks[2]) # UrlOf(AcceptedLinks[1])
    /\ UrlOf(AcceptedLinks[3]) = UrlOf(AcceptedLinks[1])
    /\ LinkText(AcceptedLinks[3].node) # <<>>
    /\ Len(ret.value) = 2
    /\ ret.value[1] = [url |-> UrlOf(AcceptedLinks[1]), title |-> LinkText(AcceptedLinks[3].node)]

ServiceGaveNothing == args.service.kind = "rejected" \/ args.service.text = <<>>

\* the body of an article's markdown: what follows the rule that ends the
\* header of an optimized article, the whole markdown when there is no rule
BodyOf(markdown) ==
    LET rule == <<"-", "-", "-", "\n", "\n">>
        k == LastIndexOf(markdown, rule)
    IN IF k = 0 THEN markdown ELSE SubSeq(markdown, k + Len(rule), Len(markdown))

\* C20: cleanContentWithGemini never raises; when the service call fails or
\* gives empty text it returns the raw text unchanged, so that optimizeArticle
\* never logs a failure for it and never leaves an article with an empty
\* markdown body: after such a call the body of the article is its content.
C20_CleanupFallsBackToRawText ==
    fn = "optimizeArticle" =>
        /\ ret # Pending =>
              /\ ret.status = "returned"
              /\ ServiceGaveNothing =>
                    /\ ret.value = args.rawText
                    /\ \A i \in DOMAIN articles :
                          articles[i].id = args.id =>
                              BodyOf(articles[i].markdown) = articles[i].content
        /\ \A i \in DOMAIN articles : BodyOf(articles[i].markdown) # <<>>
        /\ \A i \in DOMAIN logs : logs[i].type # "error"

\* the service failed for an article that is still in the list: its markdown
\* has the header of an optimized article and its content as body
C20_Witness ==
    /\ fn = "optimizeArticle"
    /\ ret # Pending
    /\ args.service.kind = "rejected"
    /\ \E i \in DOMAIN articles :
          /\ articles[i].id = args.id
          /\ Includes(articles[i].markdown, <<"[", "L", "i", "n", "k", "]">>)
          /\ BodyOf(articles[i].markdown) = articles[i].content
          /\ Len(articles[i].content) >= 20

\* ---- the scrape

\* the calls of startScraping that have not returned
Active == {k \in DOMAIN loops : loops[k].pc # "done"}

\* the calls that are at a page of an edition: they fetch it, or fetch its
\* articles, or wait in between
AtPage == {k \in Active : loops[k].i > 0}

\* C21: for every date of a run, the pages the scrape scans are among the
\* first maxPages pages the navigator discovered for that edition, however
\* many it discovered: the page a call is at has a rank of at most maxPages
\* in the discovered sequence and is the page of that rank.
C21_ScansFirstMaxPagesOnly ==
    fn = "startScraping" =>
        \A k \in AtPage :
            LET discovered == EditionPages(Dates[loops[k].d])
            IN /\ loops[k].i <= config.maxPages
               /\ loops[k].i <= Len(discovered)
               /\ NodeUrl(loops[k]) = discovered[loops[k].i]

\* a call fetches an article of the last page it may scan, the second of
\* the three the navigator discovered
C21_Witness ==
    /\ fn = "startScraping"
    /\ \E k \in AtPage :
          /\ loops[k].what = "article"
          /\ loops[k].i = config.maxPages
          /\ loops[k].i > 1
          /\ config.maxPages < Len(EditionPages(Dates[loops[k].d]))

C23_BatchSizeDatesBeforeEachCooldown ==
    fn = "startScraping" =>
        \A k \in Active :
            loops[k].pc = "cooldown" =>
                /\ loops[k].d > 1
                /\ loops[k].sinceCooldown >= Or(config.batchSize, 3)

\* C24: within one run with rate limiting enabled and a dailyArticleLimit L
\* above 0, the articles added to the list (which every run starts empty)
\* never number more than L.
C24_RunAddsAtMostDailyLimit ==
    fn = "startScraping" /\ config.enableRateLimiting /\ config.dailyArticleLimit > 0 =>
        Len(articles) <= config.dailyArticleLimit

\* C25: the daily article limit is a limit per calendar day: with a
\* dailyArticleLimit L above 0 the articles the runs have added on one day,
\* over all runs started on that day, never number more than L.
C25_DayAddsAtMostDailyLimit ==
    fn = "startScraping" /\ config.enableRateLimiting /\ config.dailyArticleLimit > 0 =>
        addedToday <= config.dailyArticleLimit

\* C26: the article list never holds two articles with the same url.
C26_NoTwoArticlesWithOneUrl ==
    fn = "startScraping" =>
        \A m, n \in DOMAIN articles : articles[m].url = articles[n].url => m = n

\* the log has got the line 'Job completed!' in this step
LogsJobCompleted ==
    /\ Len(logs') > Len(logs)
    /\ logs'[Len(logs')].message = "Job completed!"

\* C27: once stopScraping has made the status PAUSED it stays PAUSED until
\* the user starts a new run: while the status is PAUSED no step other than
\* a click on Start changes it, and none logs the job as completed.
C27_PausedUntilNewRun ==
    [][fn = "startScraping" /\ status = "PAUSED" =>
          \/ Len(loops') > Len(loops)
          \/ status' = "PAUSED" /\ ~LogsJobCompleted]_vars

\* the call k goes on in this step and, in it, calls fetchUrl or adds an
\* article to the list
FetchesOrAppends(k) ==
    /\ loops'[k] # loops[k]
    /\ loops'[k].pc = "fetch" \/ Len(articles') > Len(articles)

\* the calls that are fetching an article they will add to the list
FetchingArticle(calls) == {k \in DOMAIN calls : calls[k].what = "article"}

\* C28: at most one scrape loop is at work: a call that was stopped neither
\* fetches nor adds an article once a newer run has been started, and no two
\* calls are fetching articles for the list at the same time.
C28_StoppedLoopStaysStopped ==
    [][fn = "startScraping" =>
          /\ \A k \in DOMAIN loops :
                loops[k].stopped /\ k < Len(loops) => ~FetchesOrAppends(k)
          /\ Cardinality(FetchingArticle(loops')) <= 1]_vars

\* the fetchUrl the call k awaits fails in this step and fetchWithRetry has
\* no retry left
FailsForGood(k) ==
    /\ loops[k].pc = "fetch"
    /\ fetchWithRetry(config, loops[k].retries, "failed").status = "threw"
    /\ FetchSettles(k, "failed")

\* the call k has gone on to the next date
AtNextDate(k) ==
    /\ loops'[k].d = loops[k].d + 1
    /\ loops'[k].pc = "cooldown" \/ (loops'[k].pc = "fetch" /\ loops'[k].what = "entry")

\* the call k is through with the page it was at and waits before the next
AfterThePage(k) ==
    /\ loops'[k].d = loops[k].d /\ loops'[k].i = loops[k].i
    /\ loops'[k].pc = "pageDelay"

\* the call k is at a later link of the page it was at
AtLaterLink(k) ==
    /\ loops'[k].d = loops[k].d /\ loops'[k].i = loops[k].i
    /\ loops'[k].j > loops[k].j /\ loops'[k].pc = "articleDelay"

\* the call k has returned and the run counts as completed
Returns(k) == loops'[k].pc = "done" /\ status' = "COMPLETED"

\* C29: a fetch that fails after all its retries costs its own item only:
\* no article is added and the status does not become ERROR; after a failed
\* entry page the call is at the next date, after a failed page at the delay
\* before the next page or at the next date, after a failed article at a
\* later link of the page or past the page; the call returns, as completed,
\* only where nothing is left to do, or it was stopped, or the daily limit
\* is reached.
C29_FailureSkipsOneItem ==
    [][fn = "startScraping" =>
          \A k \in DOMAIN loops :
              FailsForGood(k) =>
                  /\ status' # "ERROR"
                  /\ articles' = articles
                  /\ IF loops[k].what = "entry"
                     THEN \/ AtNextDate(k)
                          \/ /\ Returns(k)
                             /\ loops[k].d = Len(Dates) \/ Aborted(abortControllerRef)
                     ELSE IF loops[k].what = "node"
                     THEN \/ AfterThePage(k)
                          \/ /\ loops[k].i = Len(NodesOf(loops[k]))
                             /\ \/ AtNextDate(k)
                                \/ /\ Returns(k)
                                   /\ loops[k].d = Len(Dates) \/ Aborted(abortControllerRef)
                     ELSE \/ AtLaterLink(k)
                          \/ AfterThePage(k)
                          \/ /\ loops[k].i = Len(NodesOf(loops[k]))
                             /\ AtNextDate(k)
                          \/ Returns(k)]_vars

\* a call has gone on to the second date after the entry page of the first
\* one failed for good, and the run is still running
C29_Witness ==
    /\ fn = "startScraping"
    /\ status = "RUNNING"
    /\ articles = <<>>
    /\ \E k \in Active :
          /\ loops[k].d = 2 /\ loops[k].pc = "fetch" /\ loops[k].what = "entry"
          /\ loops[k].retries = 0
          /\ rateLimiterRef # <<>> /\ rateLimiterRef[1].processedDates = 0

\* the k-th call of startScraping has been made
Started(k) == fn = "startScraping" /\ k \in DOMAIN loops

\* C30: where every fetch settles and every delay elapses, every call of
\* startScraping returns and a status of RUNNING does not last; with an empty
\* range of dates no call ever awaits a fetch, it has returned at once and
\* has left the status IDLE.
C30_EveryRunEnds ==
    /\ \A k \in 1..MaxRuns : Started(k) ~> (Started(k) /\ loops[k].pc = "done")
    /\ (status = "RUNNING") ~> (status \in {"COMPLETED", "IDLE", "PAUSED", "ERROR"})
    /\ [](fn = "startScraping" /\ Dates = <<>> =>
             /\ \A k \in DOMAIN loops : loops[k] = LoopDone
             /\ status = "IDLE")

\* every call the run was to make has been made and has returned, articles
\* have been added and the status is COMPLETED
C30_Witness ==
    /\ fn = "startScraping"
    /\ Len(loops) = args.starts
    /\ \A k \in DOMAIN loops : loops[k].pc = "done"
    /\ status = "COMPLETED"
    /\ Dates # <<>>
    /\ articles # <<>>

====
